---- MODULE Spec2Model ----
(***************************************************************************)
(* Coach/athlete training log backend (FastAPI + SQLAlchemy).              *)
(*                                                                         *)
(* The state is the content of the relational store (users, coach-athlete  *)
(* links, invites, plans, planned sessions, done sessions) plus the        *)
(* response of the most recent request.  Every handler of the routers is   *)
(* one action; a request runs to completion (checks, writes, commit) in    *)
(* one step in the sequential specifications, and in separate read and     *)
(* commit steps in the race specifications.                                *)
(*                                                                         *)
(* The store enforces the declared schema of the migrations (PostgreSQL:   *)
(* NOT NULL, FOREIGN KEY, UNIQUE(coach_id, athlete_id), serial primary     *)
(* keys).  A constraint violation at commit is an IntegrityError that no   *)
(* handler catches: the transaction is rolled back and the caller gets     *)
(* a 500.                                                                  *)
(***************************************************************************)
EXTENDS Integers, Sequences, FiniteSets, TLC

\* ------------------------------------------------------------ bounds
MaxInvites == 2     \* rows of coach_invites
MaxPlans == 2       \* rows of training_plans
MaxDate == 2        \* calendar dates 1..MaxDate
MaxDoneId == 2      \* primary keys handed out for training_sessions_done

\* Python None / SQL NULL
NONE == -1

\* A field the request body did not send (model_dump(exclude_unset=True)
\* leaves it out of the updates).
ABSENT == -2

\* The e-mail addresses of the requests, in the order in which their owners
\* register.
RegistrationOrder == <<"a@x", "b@x", "c@x">>
Emails == {RegistrationOrder[k] : k \in DOMAIN RegistrationOrder}
Roles == {"ATHLETE", "COACH"}
Dates == 1..MaxDate

VARIABLES
    users,      \* table users: id -> [email, role], ids 1..Len(users)
    links,      \* table coach_athlete: set of <<coach_id, athlete_id>>
    invites,    \* table coach_invites: id -> row
    plans,      \* table training_plans: id -> [athlete_id, start_date, end_date]
    planned,    \* table training_sessions_planned: id -> [plan_id, date, type]
    dones,      \* table training_sessions_done: set of rows with their id
    nextDoneId, \* next serial primary key of training_sessions_done
    now,        \* datetime.utcnow(), in ticks
    last,       \* the most recent request and its response
    reqs        \* requests in flight (race specifications only)

vars == <<users, links, invites, plans, planned, dones, nextDoneId, now, last, reqs>>

\* ------------------------------------------------------------ helpers

\* Python truthiness of an Optional[int]: None and 0 are falsy.
Truthy(x) == x # NONE /\ x # 0

UserIds == 1..Len(users)

\* db.query(User).filter(User.email == e).first()  (email is unique)
UserByEmail(e) ==
    IF \E i \in UserIds : users[i].email = e
    THEN CHOOSE i \in UserIds : users[i].email = e
    ELSE NONE

\* The response recorded for a request.  mail is the background task the
\* request scheduled, ret the ids of the rows it returned or, for the
\* aggregate endpoints, the body they computed.
Resp(op, code, detail, mail, ret) ==
    [op |-> op, code |-> code, detail |-> detail, mail |-> mail, ret |-> ret]

\* raise HTTPException(...): nothing was written.
Fail(op, code, detail) ==
    /\ last' = Resp(op, code, detail, "none", {})
    /\ UNCHANGED <<users, links, invites, plans, planned, dones, nextDoneId, now, reqs>>

\* require_role(expected_role)
HasRole(u, role) == users[u].role = role

Init ==
    /\ users = <<>>
    /\ links = {}
    /\ invites = <<>>
    /\ plans = <<>>
    /\ planned = <<>>
    /\ dones = {}
    /\ nextDoneId = 1
    /\ now = 1
    /\ last = Resp("init", 0, "", "none", {})
    /\ reqs = {}

\* Mutant of EnsureAthleteAccess: the link lookup of the coach branch is
\* missing.
EnsureAthleteAccess_AnyCoach(lks, u, athlete_id) ==
    IF users[u].role = "ATHLETE" /\ u # athlete_id
    THEN <<403, "Access denied.">>
    ELSE <<0, "">>

\* ensure_athlete_access: <<0, "">> when the caller may access the athlete's
\* records, else the error raised.
EnsureAthleteAccess(lks, u, athlete_id) ==
    IF users[u].role = "ATHLETE" /\ u # athlete_id
    THEN <<403, "Access denied.">>
    ELSE IF users[u].role = "COACH" /\ <<u, athlete_id>> \notin lks
    THEN <<403, "Access denied.">>
    ELSE <<0, "">>

\* A read request that succeeded: nothing was written.
Ok(op, body) ==
    /\ last' = Resp(op, 200, "", "none", body)
    /\ UNCHANGED <<users, links, invites, plans, planned, dones, nextDoneId, now, reqs>>

\* ------------------------------------------------------------ auth router

\* Mutant of AttachPendingInvites: nothing is bound.
AttachPendingInvites_Nothing(invs, uid, role, email) == invs

\* _attach_pending_invites_to_user: bind every PENDING invite without an
\* athlete whose athlete_email is the athlete's email.
AttachPendingInvites(invs, uid, role, email) ==
    IF role # "ATHLETE" THEN invs
    ELSE [i \in DOMAIN invs |->
            IF /\ invs[i].athlete_id = NONE
               /\ invs[i].athlete_email = email
               /\ invs[i].status = "PENDING"
            THEN [invs[i] EXCEPT !.athlete_id = uid]
            ELSE invs[i]]

\* POST /auth/register
register_user(e, r) ==
    IF UserByEmail(e) # NONE
    THEN Fail("register_user", 400, "Email already registered.")
    ELSE LET uid == Len(users) + 1 IN
         /\ users' = Append(users, [email |-> e, role |-> r])
         /\ invites' = IF r = "ATHLETE"
                       THEN AttachPendingInvites(invites, uid, r, e)
                       ELSE invites
         /\ last' = Resp("register_user", 201, "", "none", {uid})
         /\ UNCHANGED <<links, plans, planned, dones, nextDoneId, now, reqs>>

\* Mutant of PendingInvites: the lookup also filters athlete_id IS NULL, as
\* the query of _attach_pending_invites_to_user does.
PendingInvites_Unbound(invs, c, e) ==
    {i \in DOMAIN invs : /\ invs[i].coach_id = c
                         /\ invs[i].athlete_email = e
                         /\ invs[i].status = "PENDING"
                         /\ invs[i].athlete_id = NONE}

\* The PENDING invites of coach c for email e (the rows the lookup of
\* invite_athlete filters).
PendingInvites(invs, c, e) ==
    {i \in DOMAIN invs : /\ invs[i].coach_id = c
                         /\ invs[i].athlete_email = e
                         /\ invs[i].status = "PENDING"}

\* Mutant of LinkExists: the lookup finds nothing.
LinkExists_Never(lks, c, a) == FALSE

\* db.query(CoachAthlete).filter(coach_id == c, athlete_id == a).first()
LinkExists(lks, c, a) == <<c, a>> \in lks

\* The row invite_athlete inserts.
NewInvite(c, athlete, e) ==
    [coach_id |-> c,
     athlete_id |-> athlete,
     athlete_email |-> IF athlete # NONE THEN users[athlete].email ELSE e,
     status |-> "PENDING",
     responded_at |-> NONE]

\* POST /auth/invite-athlete
invite_athlete(c, e) ==
    IF ~HasRole(c, "COACH")
    THEN Fail("invite_athlete", 403, "Insufficient role.")
    ELSE LET athlete == UserByEmail(e) IN
    IF athlete # NONE /\ users[athlete].role # "ATHLETE"
    THEN Fail("invite_athlete", 400, "Email belongs to a coach.")
    ELSE IF athlete # NONE /\ LinkExists(links, c, athlete)
    THEN Fail("invite_athlete", 400, "Athlete already linked.")
    ELSE IF PendingInvites(invites, c, e) # {}
    THEN \E inv \in PendingInvites(invites, c, e) :
            IF athlete # NONE /\ invites[inv].athlete_id = NONE
            THEN /\ invites' = [invites EXCEPT ![inv].athlete_id = athlete]
                 /\ last' = Resp("invite_athlete", 200, "", "invite", {inv})
                 /\ UNCHANGED <<users, links, plans, planned, dones, nextDoneId, now, reqs>>
            ELSE /\ last' = Resp("invite_athlete", 200, "", "none", {inv})
                 /\ UNCHANGED <<users, links, invites, plans, planned, dones,
                                nextDoneId, now, reqs>>
    ELSE /\ Len(invites) < MaxInvites
         /\ invites' = Append(invites, NewInvite(c, athlete, e))
         /\ last' = Resp("invite_athlete", 200, "", "invite", {Len(invites) + 1})
         /\ UNCHANGED <<users, links, plans, planned, dones, nextDoneId, now, reqs>>

\* GET /auth/invitations/athlete
list_athlete_invites(u) ==
    IF ~HasRole(u, "ATHLETE")
    THEN Fail("list_athlete_invites", 403, "Insufficient role.")
    ELSE LET bound == AttachPendingInvites(invites, u, users[u].role, users[u].email) IN
         /\ invites' = bound
         /\ last' = Resp("list_athlete_invites", 200, "", "none",
                         {i \in DOMAIN bound : bound[i].athlete_id = u})
         /\ UNCHANGED <<users, links, plans, planned, dones, nextDoneId, now, reqs>>

\* POST /auth/invitations/{invite_id}/remind
remind_invite(c, iid) ==
    IF ~HasRole(c, "COACH")
    THEN Fail("remind_invite", 403, "Insufficient role.")
    ELSE IF iid \notin DOMAIN invites \/ invites[iid].coach_id # c
    THEN Fail("remind_invite", 404, "Invite not found.")
    ELSE IF invites[iid].status # "PENDING"
    THEN Fail("remind_invite", 400, "Invite already processed.")
    ELSE /\ last' = Resp("remind_invite", 200, "", "reminder", {iid})
         /\ UNCHANGED <<users, links, invites, plans, planned, dones, nextDoneId, now, reqs>>

\* Mutant of InviteIsCallers: the invite only has to exist.
InviteIsCallers_AnyInvite(invs, iid, u) == iid \in DOMAIN invs

\* Mutant of InviteIsCallers: an invite that is bound to nobody passes.
InviteIsCallers_OrUnbound(invs, iid, u) ==
    iid \in DOMAIN invs /\ (invs[iid].athlete_id = u \/ invs[iid].athlete_id = NONE)

\* respond_invite's first check: the invite exists and is bound to the caller.
InviteIsCallers(invs, iid, u) == iid \in DOMAIN invs /\ invs[iid].athlete_id = u

\* Mutant of InviteOpen: the status check is missing.
InviteOpen_Always(inv) == TRUE

\* respond_invite's second check.
InviteOpen(inv) == inv.status = "PENDING"

\* Mutant of AcceptAddsLink: the row is added without the lookup.
AcceptAddsLink_Always(lks, c, a) == TRUE

\* respond_invite on ACCEPT: a CoachAthlete row is added if the lookup of an
\* existing link finds none.
AcceptAddsLink(lks, c, a) == ~LinkExists(lks, c, a)

\* Mutant of RespondMail: the notification is scheduled for every answer.
RespondMail_Always(action) == "accepted"

\* if invite.status == InviteStatus.ACCEPTED:
\*     background_tasks.add_task(send_invite_accepted, invite)
RespondMail(action) == IF action = "ACCEPT" THEN "accepted" ELSE "none"

\* Mutant of Responded: responded_at is not stamped.
Responded_NoStamp(inv, action, t) ==
    [inv EXCEPT !.status = IF action = "ACCEPT" THEN "ACCEPTED" ELSE "DECLINED"]

\* The invite row after respond_invite.
Responded(inv, action, t) ==
    [inv EXCEPT !.responded_at = t,
                !.status = IF action = "ACCEPT" THEN "ACCEPTED" ELSE "DECLINED"]

\* POST /auth/invitations/{invite_id}/respond.  Adding a link that exists
\* violates coach_athlete_unique at commit.
respond_invite(u, iid, action) ==
    IF ~HasRole(u, "ATHLETE")
    THEN Fail("respond_invite", 403, "Insufficient role.")
    ELSE IF ~InviteIsCallers(invites, iid, u)
    THEN Fail("respond_invite", 404, "Invite not found.")
    ELSE IF ~InviteOpen(invites[iid])
    THEN Fail("respond_invite", 400, "Invite already processed.")
    ELSE LET c == invites[iid].coach_id
             add == action = "ACCEPT" /\ AcceptAddsLink(links, c, u)
         IN
         IF add /\ LinkExists(links, c, u)
         THEN Fail("respond_invite", 500, "Internal Server Error")
         ELSE /\ invites' = [invites EXCEPT ![iid] = Responded(invites[iid], action, now)]
              /\ links' = IF add THEN links \cup {<<c, u>>} ELSE links
              /\ now' = now + 1
              /\ last' = Resp("respond_invite", 200, "", RespondMail(action), {iid})
              /\ UNCHANGED <<users, plans, planned, dones, nextDoneId, reqs>>

\* ------------------------------------------------------------ athletes router

\* The plans and the planned sessions of an athlete (TrainingSessionPlanned
\* joined to TrainingPlan on athlete_id).
PlansOf(aid) == {p \in DOMAIN plans : plans[p].athlete_id = aid}
PlannedOf(aid) == {s \in DOMAIN planned : plans[planned[s].plan_id].athlete_id = aid}

\* The done-records of the athlete dated in [start, end].
DonesIn(ds, aid, start, end) ==
    {r \in ds : r.athlete_id = aid /\ r.date >= start /\ r.date <= end}

\* GET /athletes/{athlete_id}/summary
athlete_summary(u, aid) ==
    LET acc == EnsureAthleteAccess(links, u, aid) IN
    IF acc[1] # 0
    THEN Fail("athlete_summary", acc[1], acc[2])
    ELSE Ok("athlete_summary",
            [athlete_id |-> aid,
             total_plans |-> Cardinality(PlansOf(aid)),
             planned_sessions |-> Cardinality(PlannedOf(aid)),
             completed_sessions |-> Cardinality({r \in dones : r.athlete_id = aid})])

\* _aggregate_period (the count; distances and effort are not modelled)
AggregatePeriod(ds, aid, start_date, end_date) ==
    [sessions |-> Cardinality(DonesIn(ds, aid, start_date, end_date))]

\* Mutant of SessionTypeLabel: every record is a manual one.
SessionTypeLabel_AlwaysManual(r) == "MANUAL"

\* coalesce(cast(TrainingSessionPlanned.type, String), "MANUAL") over the
\* outer join of a done-record to its planned session.
SessionTypeLabel(r) ==
    IF r.planned_session_id \in DOMAIN planned
    THEN planned[r.planned_session_id].type
    ELSE "MANUAL"

\* The grouped counts of athlete_history, as the dict built from them.
TypeCounts(ds, aid, start_date, end_date) ==
    LET rows == DonesIn(ds, aid, start_date, end_date)
        labels == {SessionTypeLabel(r) : r \in rows}
    IN [l \in labels |-> Cardinality({r \in rows : SessionTypeLabel(r) = l})]

WeekSpan == 6       \* week_start = today - timedelta(days=6)
MonthSpan == 29     \* month_start = today - timedelta(days=29)

\* GET /athletes/{athlete_id}/history.  today is date.today().
athlete_history(u, aid, today) ==
    LET acc == EnsureAthleteAccess(links, u, aid) IN
    IF acc[1] # 0
    THEN Fail("athlete_history", acc[1], acc[2])
    ELSE Ok("athlete_history",
            [athlete_id |-> aid,
             week_sessions |-> AggregatePeriod(dones, aid, today - WeekSpan, today).sessions,
             month_sessions |-> AggregatePeriod(dones, aid, today - MonthSpan, today).sessions,
             session_type_distribution |-> TypeCounts(dones, aid, today - MonthSpan, today)])

\* reversed(stats)
\* Mutant of Reversed: the list is returned as built.
Reversed_AsBuilt(q) == q

Reversed(q) == [k \in 1..Len(q) |-> q[Len(q) + 1 - k]]

StatWeeks == 4      \* for offset in range(0, 4)

\* The WeeklyStat of athlete_weekly_stats for an offset.
WeeklyStat(ds, aid, today, offset) ==
    LET end_date == today - 7 * offset
        start_date == end_date - 6
    IN [start_date |-> start_date,
        end_date |-> end_date,
        sessions |-> Cardinality(DonesIn(ds, aid, start_date, end_date))]

\* GET /athletes/{athlete_id}/weekly-stats
athlete_weekly_stats(u, aid, today) ==
    LET acc == EnsureAthleteAccess(links, u, aid)
        stats == [k \in 1..StatWeeks |-> WeeklyStat(dones, aid, today, k - 1)]
    IN
    IF acc[1] # 0
    THEN Fail("athlete_weekly_stats", acc[1], acc[2])
    ELSE Ok("athlete_weekly_stats", Reversed(stats))

FetchLimit == 5     \* .limit(5)
UpcomingLimit == 3  \* [:3]

\* The first n elements of a sequence, q[:n].
Take(q, n) == [k \in 1..(IF Len(q) < n THEN Len(q) ELSE n) |-> q[k]]

\* The results the query of athlete_today_overview can return: the planned
\* sessions of the athlete dated today or later, in ascending date order,
\* cut after FetchLimit rows.  Rows of one date come in any order.
TodayFetches(aid, today) ==
    LET E == {s \in PlannedOf(aid) : planned[s].date >= today}
        n == IF Cardinality(E) < FetchLimit THEN Cardinality(E) ELSE FetchLimit
    IN {q \in [1..n -> E] :
          /\ \A i, j \in 1..n : i < j => q[i] # q[j] /\ planned[q[i]].date <= planned[q[j]].date
          /\ \A x \in E : (\A i \in 1..n : q[i] # x) =>
                \A i \in 1..n : planned[q[i]].date <= planned[x].date}

\* to_overview: the planned session with the done-record that references it.
SessionOverview(ds, aid, sid) ==
    [session_id |-> sid,
     date |-> planned[sid].date,
     completed |-> \E r \in ds : r.athlete_id = aid /\ r.planned_session_id = sid]

\* [s for s in sessions if s.id != x]
RECURSIVE Without(_, _)
Without(q, x) ==
    IF q = <<>> THEN <<>>
    ELSE IF Head(q) = x THEN Without(Tail(q), x)
    ELSE <<Head(q)>> \o Without(Tail(q), x)

\* GET /athletes/{athlete_id}/today.  The Optional today of the body is a
\* sequence of no or one entry.
athlete_today_overview(u, aid, today) ==
    LET acc == EnsureAthleteAccess(links, u, aid) IN
    IF acc[1] # 0
    THEN Fail("athlete_today_overview", acc[1], acc[2])
    ELSE \E sessions \in TodayFetches(aid, today) :
         LET onToday == {i \in 1..Len(sessions) : planned[sessions[i]].date = today}
             today_session ==
                 IF onToday = {} THEN NONE
                 ELSE sessions[CHOOSE i \in onToday : \A j \in onToday : i <= j]
             rest == IF today_session = NONE THEN sessions
                     ELSE Without(sessions, today_session)
             cut == Take(rest, UpcomingLimit)
         IN Ok("athlete_today_overview",
               [athlete_id |-> aid,
                date |-> today,
                today |-> IF today_session = NONE THEN <<>>
                          ELSE <<SessionOverview(dones, aid, today_session)>>,
                upcoming |-> [k \in 1..Len(cut) |-> SessionOverview(dones, aid, cut[k])]])

\* ------------------------------------------------------------ plans router

\* The planned-session rows of a plan, from the payload's sessions.
PlannedRows(pid, sessions) ==
    [k \in 1..Len(sessions) |->
        [plan_id |-> pid, date |-> sessions[k].date, type |-> sessions[k].type]]

\* POST /plans.  payload is a TrainingPlanCreate: athlete_id, start_date,
\* end_date and the sessions, each with its date and type.  The plan's
\* athlete_id is a foreign key to users: a plan for an id that is no user
\* fails at commit.
create_plan(c, payload) ==
    IF ~HasRole(c, "COACH")
    THEN Fail("create_plan", 403, "Insufficient role.")
    ELSE IF payload.athlete_id \notin UserIds
    THEN Fail("create_plan", 500, "Internal Server Error")
    ELSE LET pid == Len(plans) + 1
             aid == payload.athlete_id
         IN
         /\ Len(plans) < MaxPlans
         /\ plans' = Append(plans, [athlete_id |-> aid,
                                    start_date |-> payload.start_date,
                                    end_date |-> payload.end_date])
         /\ planned' = planned \o PlannedRows(pid, payload.sessions)
         /\ links' = IF LinkExists(links, c, aid) THEN links ELSE links \cup {<<c, aid>>}
         /\ last' = Resp("create_plan", 201, "", "none", {pid})
         /\ UNCHANGED <<users, invites, dones, nextDoneId, now, reqs>>

\* GET /plans/{plan_id}
read_plan(u, plan_id) ==
    IF plan_id \notin DOMAIN plans
    THEN Fail("read_plan", 404, "Plan not found.")
    ELSE LET acc == EnsureAthleteAccess(links, u, plans[plan_id].athlete_id) IN
         IF acc[1] # 0
         THEN Fail("read_plan", acc[1], acc[2])
         ELSE Ok("read_plan", {plan_id})

\* GET /plans/athlete/{athlete_id}
list_athlete_plans(u, aid) ==
    LET acc == EnsureAthleteAccess(links, u, aid) IN
    IF acc[1] # 0
    THEN Fail("list_athlete_plans", acc[1], acc[2])
    ELSE Ok("list_athlete_plans", PlansOf(aid))

\* The sessions of a plan in the order of their ids (plan.sessions).
SessionsOfPlan(plan_id) ==
    LET ids == {s \in DOMAIN planned : planned[s].plan_id = plan_id}
        Rank(s) == Cardinality({t \in ids : t <= s})
    IN [k \in 1..Cardinality(ids) |-> CHOOSE s \in ids : Rank(s) = k]

\* Mutant of ShiftDays: the copy is not shifted.
ShiftDays_Zero(start_date, plan) == 0

\* shift_days = (payload.start_date - plan.start_date).days
ShiftDays(start_date, plan) == start_date - plan.start_date

\* POST /plans/{plan_id}/duplicate.  payload is a
\* TrainingPlanDuplicateRequest: start_date, target_athlete_id and end_date,
\* the last two optional.
duplicate_plan(c, plan_id, payload) ==
    IF ~HasRole(c, "COACH")
    THEN Fail("duplicate_plan", 403, "Insufficient role.")
    ELSE IF plan_id \notin DOMAIN plans
    THEN Fail("duplicate_plan", 404, "Plan not found.")
    ELSE LET plan == plans[plan_id]
             target_athlete_id == IF Truthy(payload.target_athlete_id)
                                  THEN payload.target_athlete_id
                                  ELSE plan.athlete_id
             shift_days == ShiftDays(payload.start_date, plan)
             end_date == IF payload.end_date # NONE THEN payload.end_date
                         ELSE plan.end_date + shift_days
             sessions == SessionsOfPlan(plan_id)
             new_id == Len(plans) + 1
         IN
         IF EnsureAthleteAccess(links, c, plan.athlete_id)[1] # 0
         THEN Fail("duplicate_plan", 403, "Access denied.")
         ELSE IF EnsureAthleteAccess(links, c, target_athlete_id)[1] # 0
         THEN Fail("duplicate_plan", 403, "Access denied.")
         ELSE /\ Len(plans) < MaxPlans
              /\ plans' = Append(plans, [athlete_id |-> target_athlete_id,
                                         start_date |-> payload.start_date,
                                         end_date |-> end_date])
              /\ planned' = planned \o
                    [k \in 1..Len(sessions) |->
                        [plan_id |-> new_id,
                         date |-> planned[sessions[k]].date + shift_days,
                         type |-> planned[sessions[k]].type]]
              /\ links' = IF LinkExists(links, c, target_athlete_id) THEN links
                          ELSE links \cup {<<c, target_athlete_id>>}
              /\ last' = Resp("duplicate_plan", 201, "", "none", {new_id})
              /\ UNCHANGED <<users, invites, dones, nextDoneId, now, reqs>>

\* ------------------------------------------------------------ sessions router

\* Mutant of ManualDuplicate: the query forgets planned_session_id IS NULL.
ManualDuplicate_AnyRecord(ds, athlete_id, session_date, exclude_session_id) ==
    \E r \in ds : /\ r.athlete_id = athlete_id
                  /\ r.date = session_date
                  /\ (Truthy(exclude_session_id) => r.id # exclude_session_id)

\* _assert_no_manual_duplicate's query: a manual record (planned_session_id
\* IS NULL) of the athlete on the date, other than the excluded one.
ManualDuplicate(ds, athlete_id, session_date, exclude_session_id) ==
    \E r \in ds : /\ r.athlete_id = athlete_id
                  /\ r.date = session_date
                  /\ r.planned_session_id = NONE
                  /\ (Truthy(exclude_session_id) => r.id # exclude_session_id)

\* _assert_no_duplicate_planned's query (and log_completed_session's inline
\* one, with no exclusion): a record of the athlete that references the
\* planned session, other than the excluded one.
PlannedDuplicate(ds, athlete_id, planned_session_id, exclude_session_id) ==
    \E r \in ds : /\ r.athlete_id = athlete_id
                  /\ r.planned_session_id = planned_session_id
                  /\ (Truthy(exclude_session_id) => r.id # exclude_session_id)

\* planned.plan.athlete_id
PlannedOwner(pid) == plans[planned[pid].plan_id].athlete_id

\* What the store accepts at commit for a done row: date NOT NULL, and
\* planned_session_id NULL or the key of a planned session.
DoneRowValid(row) ==
    /\ row.date # NONE
    /\ (row.planned_session_id = NONE \/ row.planned_session_id \in DOMAIN planned)

\* Mutant of LogGuard: the ownership check of the planned session is missing.
LogGuard_NoOwner(ds, u, planned_session_id, session_date) ==
    IF Truthy(planned_session_id)
    THEN IF planned_session_id \notin DOMAIN planned
         THEN <<404, "Planned session not found.">>
         ELSE IF PlannedDuplicate(ds, u, planned_session_id, NONE)
         THEN <<400, "You already logged this planned session.">>
         ELSE <<0, "">>
    ELSE IF ManualDuplicate(ds, u, session_date, NONE)
         THEN <<400, "A session for this date already exists.">>
         ELSE <<0, "">>

\* The checks of log_completed_session before it inserts: <<0, "">> when
\* the record may be written, else the error raised.
LogGuard(ds, u, planned_session_id, session_date) ==
    IF Truthy(planned_session_id)
    THEN IF planned_session_id \notin DOMAIN planned
         THEN <<404, "Planned session not found.">>
         ELSE IF PlannedOwner(planned_session_id) # u
         THEN <<403, "Not your session.">>
         ELSE IF PlannedDuplicate(ds, u, planned_session_id, NONE)
         THEN <<400, "You already logged this planned session.">>
         ELSE <<0, "">>
    ELSE IF ManualDuplicate(ds, u, session_date, NONE)
         THEN <<400, "A session for this date already exists.">>
         ELSE <<0, "">>

\* POST /sessions/done
log_completed_session(u, pid, d) ==
    IF ~HasRole(u, "ATHLETE")
    THEN Fail("log_completed_session", 403, "Insufficient role.")
    ELSE LET err == LogGuard(dones, u, pid, d)
             row == [id |-> nextDoneId, athlete_id |-> u,
                     planned_session_id |-> pid, date |-> d]
         IN
         IF err[1] # 0
         THEN Fail("log_completed_session", err[1], err[2])
         ELSE IF ~DoneRowValid(row)
         THEN Fail("log_completed_session", 500, "Internal Server Error")
         ELSE /\ nextDoneId <= MaxDoneId
              /\ dones' = dones \cup {row}
              /\ nextDoneId' = nextDoneId + 1
              /\ last' = Resp("log_completed_session", 201, "", "none", {row.id})
              /\ UNCHANGED <<users, links, invites, plans, planned, now, reqs>>

\* db.get(TrainingSessionDone, session_id)
DoneById(ds, sid) == CHOOSE r \in ds : r.id = sid

\* _get_session_for_edit: <<0, "">> when the caller may read and edit the
\* record, else the error raised.
SessionForEdit(u, sid) ==
    IF ~(\E r \in dones : r.id = sid)
    THEN <<404, "Session not found.">>
    ELSE IF users[u].role = "ATHLETE"
    THEN IF DoneById(dones, sid).athlete_id # u
         THEN <<403, "Not your session.">>
         ELSE <<0, "">>
    ELSE EnsureAthleteAccess(links, u, DoneById(dones, sid).athlete_id)

\* _query_sessions: the athlete's records under the optional filters (a
\* filter that is None, or a planned_session_id of 0, is not applied).
QuerySessions(ds, aid, start_date, end_date, planned_session_id) ==
    {r \in ds : /\ r.athlete_id = aid
                /\ (start_date # NONE => r.date >= start_date)
                /\ (end_date # NONE => r.date <= end_date)
                /\ (Truthy(planned_session_id) => r.planned_session_id = planned_session_id)}

\* GET /sessions/done/me
list_my_sessions(u, start_date, end_date, planned_session_id) ==
    IF ~HasRole(u, "ATHLETE")
    THEN Fail("list_my_sessions", 403, "Insufficient role.")
    ELSE Ok("list_my_sessions",
            {r.id : r \in QuerySessions(dones, u, start_date, end_date, planned_session_id)})

\* GET /sessions/done/athlete/{athlete_id}
list_athlete_sessions(c, aid, start_date, end_date, planned_session_id) ==
    IF ~HasRole(c, "COACH")
    THEN Fail("list_athlete_sessions", 403, "Insufficient role.")
    ELSE LET acc == EnsureAthleteAccess(links, c, aid) IN
         IF acc[1] # 0
         THEN Fail("list_athlete_sessions", acc[1], acc[2])
         ELSE Ok("list_athlete_sessions",
                 {r.id : r \in QuerySessions(dones, aid, start_date, end_date,
                                              planned_session_id)})

\* GET /sessions/done/{session_id}
get_completed_session(u, sid) ==
    LET acc == SessionForEdit(u, sid) IN
    IF acc[1] # 0
    THEN Fail("get_completed_session", acc[1], acc[2])
    ELSE Ok("get_completed_session", {sid})

\* The payload of an update, as model_dump(exclude_unset=True) sees it: each
\* of planned_session_id and date is ABSENT, null (NONE) or a value.  The
\* other columns are not modelled.
UpdatePayloads(pids, dates) == [pid : pids \cup {ABSENT}, date : dates \cup {ABSENT}]

\* if not updates
NoUpdates(upd) == upd.pid = ABSENT /\ upd.date = ABSENT

\* Mutant of NewPlannedId: the guard validates the record's stored link, not
\* the one the update sets.
NewPlannedId_Prior(session, upd) == session.planned_session_id

\* updates.get("planned_session_id", session.planned_session_id)
NewPlannedId(session, upd) ==
    IF upd.pid # ABSENT THEN upd.pid ELSE session.planned_session_id

\* updates.get("date", session.date)
NewDate(session, upd) == IF upd.date # ABSENT THEN upd.date ELSE session.date

\* Mutant of UpdateGuard: the ownership check of the planned session is missing.
UpdateGuard_NoOwner(ds, session, new_planned_id, new_date) ==
    IF Truthy(new_planned_id)
    THEN IF new_planned_id \notin DOMAIN planned
         THEN <<404, "Planned session not found.">>
         ELSE IF PlannedDuplicate(ds, session.athlete_id, new_planned_id, session.id)
         THEN <<400, "You already logged this planned session.">>
         ELSE <<0, "">>
    ELSE IF ManualDuplicate(ds, session.athlete_id, new_date, session.id)
         THEN <<400, "A session for this date already exists.">>
         ELSE <<0, "">>

\* The checks of update_session on the record's new planned_session_id and
\* date: <<0, "">> when the update may be written, else the error raised.
UpdateGuard(ds, session, new_planned_id, new_date) ==
    IF Truthy(new_planned_id)
    THEN IF new_planned_id \notin DOMAIN planned
         THEN <<404, "Planned session not found.">>
         ELSE IF PlannedOwner(new_planned_id) # session.athlete_id
         THEN <<403, "Not your session.">>
         ELSE IF PlannedDuplicate(ds, session.athlete_id, new_planned_id, session.id)
         THEN <<400, "You already logged this planned session.">>
         ELSE <<0, "">>
    ELSE IF ManualDuplicate(ds, session.athlete_id, new_date, session.id)
         THEN <<400, "A session for this date already exists.">>
         ELSE <<0, "">>

\* for field, value in updates.items(): setattr(session, field, value)
ApplyUpdates(session, upd) ==
    [session EXCEPT !.planned_session_id = IF upd.pid # ABSENT THEN upd.pid ELSE @,
                    !.date = IF upd.date # ABSENT THEN upd.date ELSE @]

\* PUT /sessions/done/{session_id}
update_session(u, sid, upd) ==
    LET acc == SessionForEdit(u, sid) IN
    IF acc[1] # 0
    THEN Fail("update_session", acc[1], acc[2])
    ELSE LET session == DoneById(dones, sid)
             err == UpdateGuard(dones, session, NewPlannedId(session, upd),
                                NewDate(session, upd))
             row == ApplyUpdates(session, upd)
         IN
         IF NoUpdates(upd)
         THEN /\ last' = Resp("update_session", 200, "", "none", {sid})
              /\ UNCHANGED <<users, links, invites, plans, planned, dones,
                             nextDoneId, now, reqs>>
         ELSE IF err[1] # 0
         THEN Fail("update_session", err[1], err[2])
         ELSE IF ~DoneRowValid(row)
         THEN Fail("update_session", 500, "Internal Server Error")
         ELSE /\ dones' = (dones \ {session}) \cup {row}
              /\ last' = Resp("update_session", 200, "", "none", {sid})
              /\ UNCHANGED <<users, links, invites, plans, planned, nextDoneId, now, reqs>>

\* DELETE /sessions/done/{session_id}
delete_session(u, sid) ==
    LET acc == SessionForEdit(u, sid) IN
    IF acc[1] # 0
    THEN Fail("delete_session", acc[1], acc[2])
    ELSE /\ dones' = dones \ {DoneById(dones, sid)}
         /\ last' = Resp("delete_session", 204, "", "none", {})
         /\ UNCHANGED <<users, links, invites, plans, planned, nextDoneId, now, reqs>>

\* ------------------------------------------------------------ dashboard router

\* Mutant of Round2: the rate is capped at 1.
Round2_Capped(completed_count, planned_count) ==
    LET q == (100 * completed_count) \div planned_count
        rem == (100 * completed_count) % planned_count
    IN IF completed_count >= planned_count THEN 100
       ELSE IF 2 * rem < planned_count THEN q
       ELSE IF 2 * rem > planned_count THEN q + 1
       ELSE IF q % 2 = 0 THEN q ELSE q + 1

\* round(x, 2) of the quotient completed_count / planned_count, in hundredths: the
\* nearest hundredth, the even one when the quotient lies exactly half-way
\* (eighths, which are exact binary fractions).
Round2(completed_count, planned_count) ==
    LET q == (100 * completed_count) \div planned_count
        rem == (100 * completed_count) % planned_count
    IN IF 2 * rem < planned_count THEN q
       ELSE IF 2 * rem > planned_count THEN q + 1
       ELSE IF q % 2 = 0 THEN q ELSE q + 1

\* Mutant of Compliance: nothing planned counts as full compliance.
Compliance_FullWhenNothingPlanned(completed_count, planned_count) ==
    IF planned_count > 0 THEN Round2(completed_count, planned_count) ELSE 100

\* round(completed_count / planned_count, 2) if planned_count > 0 else None
Compliance(completed_count, planned_count) ==
    IF planned_count > 0 THEN Round2(completed_count, planned_count) ELSE NONE

\* Mutant of PendingToday: the difference without the floor.
PendingToday_NoFloor(planned_today, completed_today) == planned_today - completed_today

\* max(0, planned_today - completed_today)
PendingToday(planned_today, completed_today) ==
    IF planned_today - completed_today > 0 THEN planned_today - completed_today ELSE 0

\* The planned sessions of the athletes dated in [start, end].
PlannedIn(athlete_ids, start, end) ==
    {s \in DOMAIN planned : /\ plans[planned[s].plan_id].athlete_id \in athlete_ids
                            /\ planned[s].date >= start
                            /\ planned[s].date <= end}

\* Mutant of CompletedIn: manual records are not counted.
CompletedIn_LinkedOnly(ds, athlete_ids, start, end) ==
    {r \in ds : /\ r.athlete_id \in athlete_ids /\ r.date >= start /\ r.date <= end
                /\ r.planned_session_id # NONE}

\* The done-records of the athletes dated in [start, end].
CompletedIn(ds, athlete_ids, start, end) ==
    {r \in ds : r.athlete_id \in athlete_ids /\ r.date >= start /\ r.date <= end}

\* Mutant of CompletedToday: only the records that reference a planned
\* session dated today are counted.
CompletedToday_OfTodaysPlanned(ds, a, today) ==
    {r \in ds : /\ r.athlete_id = a
                /\ r.planned_session_id \in DOMAIN planned
                /\ planned[r.planned_session_id].date = today}

\* The done-records of the athlete dated today (completed_today).
CompletedToday(ds, a, today) == {r \in ds : r.athlete_id = a /\ r.date = today}

\* The athletes of the coach's CoachAthlete rows (athlete_rows).
AthleteRows(c) == {a \in UserIds : <<c, a>> \in links}

\* The AthleteMetrics of one athlete row.
AthleteMetrics(a, today) ==
    LET week_start == today - 6
        planned_count == Cardinality(PlannedIn({a}, week_start, today))
        completed_count == Cardinality(CompletedIn(dones, {a}, week_start, today))
        planned_today == Cardinality(PlannedIn({a}, today, today))
        completed_today == Cardinality(CompletedToday(dones, a, today))
    IN [athlete_id |-> a,
        planned_sessions_week |-> planned_count,
        completed_sessions_week |-> completed_count,
        compliance_rate |-> Compliance(completed_count, planned_count),
        pending_sessions_today |-> PendingToday(planned_today, completed_today)]

\* _build_coach_metrics: one AthleteMetrics per CoachAthlete row of the coach
\* (the pair is unique in coach_athlete).
BuildCoachMetrics(c, today) == {AthleteMetrics(a, today) : a \in AthleteRows(c)}

TrendWeeks == 4     \* weeks: int = 4

\* The CoachTrendPoint of _build_weekly_trend for an offset.
TrendPoint(athlete_ids, today, offset) ==
    LET period_end == today - offset * 7
        period_start == period_end - 6
        planned_total == Cardinality(PlannedIn(athlete_ids, period_start, period_end))
        completed_total == Cardinality(CompletedIn(dones, athlete_ids, period_start, period_end))
    IN [week_start |-> period_start,
        week_end |-> period_end,
        planned_sessions |-> planned_total,
        completed_sessions |-> completed_total,
        compliance_rate |-> Compliance(completed_total, planned_total)]

\* _build_weekly_trend: for offset in range(weeks - 1, -1, -1)
BuildWeeklyTrend(athlete_ids, today) ==
    IF athlete_ids = {} THEN <<>>
    ELSE [k \in 1..TrendWeeks |-> TrendPoint(athlete_ids, today, TrendWeeks - k)]

\* GET /dashboard/coach/me
coach_dashboard(c, today) ==
    IF ~HasRole(c, "COACH")
    THEN Fail("coach_dashboard", 403, "Insufficient role.")
    ELSE Ok("coach_dashboard", BuildCoachMetrics(c, today))

\* sum(f[x] for x in S)
RECURSIVE Sum(_, _)
Sum(f, S) ==
    IF S = {} THEN 0
    ELSE LET x == CHOOSE y \in S : TRUE IN f[x] + Sum(f, S \ {x})

\* The values round(total / n, 2) can take, in hundredths, for a total given
\* in hundredths: the nearest hundredth; when the exact mean lies half-way
\* the float of the mean lies on either side of it.
AvgRounded(total, n) ==
    LET q == total \div n
        rem == total % n
    IN IF 2 * rem < n THEN {q}
       ELSE IF 2 * rem > n THEN {q + 1}
       ELSE {q, q + 1}

\* sorted(metrics, key=(compliance_rate or -1, distance), reverse=True)[:3],
\* as the athletes chosen: none left out ranks above one chosen (the
\* distance, which orders equal rates, is not modelled).
TopAthletes(metrics) ==
    LET n == IF Cardinality(metrics) < 3 THEN Cardinality(metrics) ELSE 3 IN
    {T \in SUBSET metrics :
        /\ Cardinality(T) = n
        /\ \A m \in T, o \in metrics \ T : m.compliance_rate >= o.compliance_rate}

\* Mutant of Rated: an absent compliance rate is taken as a rate.
Rated_All(metrics) == metrics

\* The entries with a compliance rate: [... for m in metrics if
\* m.compliance_rate is not None]
Rated(metrics) == {m \in metrics : m.compliance_rate # NONE}

\* GET /dashboard/coach/overview.  today is the date.today() of
\* _build_coach_metrics, trend_today that of _build_weekly_trend, read later.
coach_overview(c, today, trend_today) ==
    IF ~HasRole(c, "COACH")
    THEN Fail("coach_overview", 403, "Insufficient role.")
    ELSE LET metrics == BuildCoachMetrics(c, today)
             athlete_ids == AthleteRows(c)
             rated == Rated(metrics)
         IN
         IF metrics = {}
         THEN Ok("coach_overview",
                 [total_athletes |-> 0, avg_compliance_rate |-> NONE,
                  pending_sessions_today |-> 0, low_compliance_athletes |-> 0,
                  trend |-> <<>>, top_athletes |-> {}])
         ELSE \E avg \in IF rated = {} THEN {NONE}
                         ELSE AvgRounded(Sum([m \in rated |-> m.compliance_rate], rated),
                                         Cardinality(rated)),
                 top \in TopAthletes(metrics) :
              Ok("coach_overview",
                 [total_athletes |-> Cardinality(metrics),
                  avg_compliance_rate |-> avg,
                  pending_sessions_today |->
                      Sum([m \in metrics |-> m.pending_sessions_today], metrics),
                  low_compliance_athletes |->
                      Cardinality({m \in rated : m.compliance_rate < 60}),
                  trend |-> BuildWeeklyTrend(athlete_ids, trend_today),
                  top_athletes |-> {m.athlete_id : m \in top}])

\* ------------------------------------------------------------ specifications

\* Inputs of the requests.
PlanPayloads == {<<>>, <<1>>}
\* A TrainingPlanCreate for the athlete with sessions of type RODAJE on the
\* dates, running over all of Dates.
PlanCreate(aid, dates) ==
    [athlete_id |-> aid, start_date |-> 1, end_date |-> MaxDate,
     sessions |-> [k \in 1..Len(dates) |-> [date |-> dates[k], type |-> "RODAJE"]]]
PlannedIdInputs == {NONE, 0} \cup (1..(Len(planned) + 1))
DoneIdInputs == 1..MaxDoneId
DateInputs == Dates \cup {NONE}
UserIdInputs == UserIds \cup {Len(users) + 1}

\* Registration requests: an address that is registered, or the next one of
\* RegistrationOrder, with the roles the specification gives it.
RegistrationEmails ==
    {RegistrationOrder[k] : k \in {j \in DOMAIN RegistrationOrder : j <= Len(users) + 1}}
Registrations(roles) == {reg \in roles : reg[1] \in RegistrationEmails}
SessionRoles == {<<"a@x", "COACH">>, <<"b@x", "ATHLETE">>, <<"c@x", "ATHLETE">>}
InviteRoles ==
    {<<"a@x", "COACH">>, <<"b@x", "ATHLETE">>, <<"c@x", "ATHLETE">>, <<"c@x", "COACH">>}
LogRaceRoles == {<<"a@x", "COACH">>, <<"b@x", "ATHLETE">>}

\* Sequential requests against the sessions router, with the registrations
\* and plans they need.
NextSessions ==
    \/ \E reg \in Registrations(SessionRoles) : register_user(reg[1], reg[2])
    \/ \E c \in UserIds, a \in UserIdInputs, s \in PlanPayloads : create_plan(c, PlanCreate(a, s))
    \/ \E u \in UserIds, pid \in PlannedIdInputs, d \in Dates :
          log_completed_session(u, pid, d)
    \/ \E u \in UserIds, sid \in DoneIdInputs,
          upd \in UpdatePayloads(PlannedIdInputs, DateInputs) :
          update_session(u, sid, upd)
    \/ \E u \in UserIds, sid \in DoneIdInputs : delete_session(u, sid)

SpecSessions == Init /\ [][NextSessions]_vars

\* Sequential requests against the invite lifecycle.
NextInvites ==
    \/ \E reg \in Registrations(InviteRoles) : register_user(reg[1], reg[2])
    \/ \E c \in UserIds, e \in Emails : invite_athlete(c, e)
    \/ \E u \in UserIds : list_athlete_invites(u)
    \/ \E c \in UserIds, iid \in 1..MaxInvites : remind_invite(c, iid)
    \/ \E u \in UserIds, iid \in 1..MaxInvites, action \in {"ACCEPT", "DECLINE"} :
          respond_invite(u, iid, action)
    \/ \E c \in UserIds, a \in UserIdInputs : create_plan(c, PlanCreate(a, <<>>))

SpecInvites == Init /\ [][NextInvites]_vars

\* The request bodies of duplicate_plan: a start date one day before, on or
\* after the first date, the target left out, 0 or a user id, and the end
\* date left out or given.
DuplicatePayloads ==
    [start_date : 0..MaxDate, target_athlete_id : {NONE, 0} \cup UserIds,
     end_date : {NONE, MaxDate}]

\* Sequential requests against every endpoint that reads or writes the
\* records of an athlete named in the request.
NextAccess ==
    \/ \E reg \in Registrations(SessionRoles) : register_user(reg[1], reg[2])
    \/ \E c \in UserIds, a \in UserIds : create_plan(c, PlanCreate(a, <<1>>))
    \/ \E u \in UserIds, pid \in {NONE} \cup DOMAIN planned :
          log_completed_session(u, pid, 1)
    \/ \E u \in UserIds, a \in UserIdInputs : athlete_summary(u, a)
    \/ \E u \in UserIds, a \in UserIdInputs : athlete_history(u, a, 1)
    \/ \E u \in UserIds, a \in UserIdInputs : athlete_today_overview(u, a, 1)
    \/ \E u \in UserIds, a \in UserIdInputs : athlete_weekly_stats(u, a, 1)
    \/ \E u \in UserIds, p \in 1..MaxPlans : read_plan(u, p)
    \/ \E u \in UserIds, a \in UserIdInputs : list_athlete_plans(u, a)
    \/ \E c \in UserIds, p \in 1..MaxPlans,
          payload \in {d \in DuplicatePayloads : d.start_date = 1 /\ d.end_date = NONE} :
          duplicate_plan(c, p, payload)
    \/ \E u \in UserIds, pid \in {NONE} \cup DOMAIN planned :
          list_my_sessions(u, NONE, NONE, pid)
    \/ \E c \in UserIds, a \in UserIdInputs : list_athlete_sessions(c, a, NONE, NONE, NONE)
    \/ \E u \in UserIds, sid \in DoneIdInputs : get_completed_session(u, sid)
    \/ \E u \in UserIds, sid \in DoneIdInputs, upd \in UpdatePayloads({NONE}, {MaxDate}) :
          update_session(u, sid, upd)
    \/ \E u \in UserIds, sid \in DoneIdInputs : delete_session(u, sid)

SpecAccess == Init /\ [][NextAccess]_vars

\* The values of date.today() that place the dates of the records on both
\* sides of each end of a window reaching span days back.
Todays(span) == {1, MaxDate, MaxDate + span, MaxDate + span + 1}

\* The plans of the dashboard requests: no session, or one on each date.
DashboardPlans(aid) == {PlanCreate(aid, <<>>), PlanCreate(aid, [k \in 1..MaxDate |-> k])}

\* Requests of a coach and its athletes against the dashboard.
NextDashboard ==
    \/ \E reg \in Registrations(SessionRoles) : register_user(reg[1], reg[2])
    \/ \E c \in UserIds : \E a \in UserIds \ {c} :
          \E payload \in DashboardPlans(a) : create_plan(c, payload)
    \/ \E u \in UserIds, pid \in {NONE} \cup DOMAIN planned, d \in Dates :
          log_completed_session(u, pid, d)
    \/ \E c \in UserIds, today \in Todays(6) : coach_dashboard(c, today)
    \/ \E c \in UserIds, today \in {MaxDate, MaxDate + 27}, later \in {0, 1} :
          coach_overview(c, today, today + later)

SpecDashboard == Init /\ [][NextDashboard]_vars

\* ------------------------------------------------------------ concurrent requests

MaxInflight == 2    \* requests between their reads and their commit

\* Each request runs in a database session of its own (get_db); its queries
\* read what is committed when they run, and its rows become visible to the
\* other requests at its commit.
FreeRid == CHOOSE k \in 1..(MaxInflight + 1) : \A q \in reqs : q.rid # k

\* log_completed_session up to its db.add: the role check and the duplicate
\* guard, read from the committed rows.
log_check(u, pid, d) ==
    IF ~HasRole(u, "ATHLETE")
    THEN Fail("log_completed_session", 403, "Insufficient role.")
    ELSE LET err == LogGuard(dones, u, pid, d) IN
         IF err[1] # 0
         THEN Fail("log_completed_session", err[1], err[2])
         ELSE /\ Cardinality(reqs) < MaxInflight
              /\ reqs' = reqs \cup {[rid |-> FreeRid, op |-> "log", u |-> u, pid |-> pid,
                                      d |-> d, e |-> ""]}
              /\ UNCHANGED <<users, links, invites, plans, planned, dones, nextDoneId,
                             now, last>>

\* log_completed_session from db.add to the response: the insert and the
\* commit.  training_sessions_done has no uniqueness constraint.
log_commit(q) ==
    LET row == [id |-> nextDoneId, athlete_id |-> q.u,
                planned_session_id |-> q.pid, date |-> q.d]
    IN
    /\ q.op = "log"
    /\ reqs' = reqs \ {q}
    /\ IF ~DoneRowValid(row)
       THEN /\ last' = Resp("log_completed_session", 500, "Internal Server Error", "none", {})
            /\ UNCHANGED <<dones, nextDoneId>>
       ELSE /\ nextDoneId <= MaxDoneId
            /\ dones' = dones \cup {row}
            /\ nextDoneId' = nextDoneId + 1
            /\ last' = Resp("log_completed_session", 201, "", "none", {row.id})
    /\ UNCHANGED <<users, links, invites, plans, planned, now>>

NextLogRace ==
    \/ \E reg \in Registrations(LogRaceRoles) : register_user(reg[1], reg[2])
    \/ \E c \in UserIds, a \in UserIds : create_plan(c, PlanCreate(a, <<1>>))
    \/ \E u \in UserIds, pid \in {NONE} \cup DOMAIN planned, d \in Dates :
          log_check(u, pid, d)
    \/ \E q \in reqs : log_commit(q)

SpecLogRace == Init /\ [][NextLogRace]_vars

\* invite_athlete up to the lookup of a PENDING invite.  A request that is
\* rejected or finds an invite ends here, as invite_athlete does; one that
\* finds none goes on to insert.
invite_lookup(c, e) ==
    IF \/ ~HasRole(c, "COACH")
       \/ (UserByEmail(e) # NONE /\ users[UserByEmail(e)].role # "ATHLETE")
       \/ (UserByEmail(e) # NONE /\ LinkExists(links, c, UserByEmail(e)))
       \/ PendingInvites(invites, c, e) # {}
    THEN invite_athlete(c, e)
    ELSE /\ Cardinality(reqs) < MaxInflight
         /\ reqs' = reqs \cup {[rid |-> FreeRid, op |-> "invite", u |-> c,
                                 pid |-> UserByEmail(e), d |-> NONE, e |-> e]}
         /\ UNCHANGED <<users, links, invites, plans, planned, dones, nextDoneId,
                        now, last>>

\* invite_athlete from the construction of the new row to the response.
\* coach_invites has no uniqueness constraint.
invite_insert(q) ==
    /\ q.op = "invite"
    /\ Len(invites) < MaxInvites
    /\ reqs' = reqs \ {q}
    /\ invites' = Append(invites, NewInvite(q.u, q.pid, q.e))
    /\ last' = Resp("invite_athlete", 200, "", "invite", {Len(invites) + 1})
    /\ UNCHANGED <<users, links, plans, planned, dones, nextDoneId, now>>

NextInviteRace ==
    \/ \E reg \in Registrations(InviteRoles) : register_user(reg[1], reg[2])
    \/ \E c \in UserIds, e \in Emails : invite_lookup(c, e)
    \/ \E q \in reqs : invite_insert(q)

SpecInviteRace == Init /\ [][NextInviteRace]_vars

\* ------------------------------------------------------------ claims: sessions

\* The athlete has a manual done-record on the date.
HasManualOn(ds, a, d) ==
    \E r \in ds : r.athlete_id = a /\ r.date = d /\ r.planned_session_id = NONE

\* C1: log_completed_session without planned_session_id, by an athlete: if
\* the athlete has a manual done-record on the date the request fails with
\* 400 'A session for this date already exists.' and inserts nothing; if the
\* athlete has none on that date (whatever other records exist) it succeeds
\* and inserts exactly one record, a manual one of the athlete on the date.
C1_ManualLogOncePerDate ==
    [][\A u \in UserIds, d \in Dates :
         (HasRole(u, "ATHLETE") /\ log_completed_session(u, NONE, d)) =>
            IF HasManualOn(dones, u, d)
            THEN /\ last'.code = 400
                 /\ last'.detail = "A session for this date already exists."
                 /\ dones' = dones
            ELSE /\ last'.code = 201
                 /\ dones \subseteq dones'
                 /\ Cardinality(dones' \ dones) = 1
                 /\ \A r \in dones' \ dones :
                       r.athlete_id = u /\ r.date = d /\ r.planned_session_id = NONE
      ]_vars

\* C1 witness: a manual log was rejected as a duplicate while the athlete
\* holds a manual record.
C1_Witness ==
    /\ last.op = "log_completed_session"
    /\ last.detail = "A session for this date already exists."
    /\ \E r \in dones : r.planned_session_id = NONE

\* C2: log_completed_session by an athlete referencing an existing planned
\* session: 403 'Not your session.' if its plan belongs to someone else,
\* logged or not; 400 'You already logged this planned session.' if it is the
\* caller's and the caller has a record referencing it; nothing is inserted
\* in either case.
C2_PlannedLogOwnershipThenUnique ==
    [][\A u \in UserIds, pid \in DOMAIN planned, d \in Dates :
         (HasRole(u, "ATHLETE") /\ log_completed_session(u, pid, d)) =>
            /\ PlannedOwner(pid) # u =>
                  /\ last'.code = 403
                  /\ last'.detail = "Not your session."
                  /\ dones' = dones
            /\ (/\ PlannedOwner(pid) = u
                /\ \E r \in dones : r.athlete_id = u /\ r.planned_session_id = pid) =>
                  /\ last'.code = 400
                  /\ last'.detail = "You already logged this planned session."
                  /\ dones' = dones
      ]_vars

\* C2 witness: an athlete was refused a planned session that its owner has
\* already logged.
C2_Witness ==
    /\ last.op = "log_completed_session"
    /\ last.detail = "Not your session."
    /\ \E r \in dones : /\ r.planned_session_id \in DOMAIN planned
                        /\ PlannedOwner(r.planned_session_id) = r.athlete_id

\* C3: every done-record with a planned_session_id references a planned
\* session whose plan belongs to the record's athlete, and no two
\* done-records reference the same planned session.
C3_LinkedOwnedAndUnique ==
    /\ \A r \in dones :
          r.planned_session_id # NONE =>
             /\ r.planned_session_id \in DOMAIN planned
             /\ PlannedOwner(r.planned_session_id) = r.athlete_id
    /\ \A r1, r2 \in dones :
          (r1.planned_session_id # NONE /\ r1.planned_session_id = r2.planned_session_id)
             => r1 = r2

\* C3 witness: an update was accepted and left a linked record beside a
\* second record.
C3_Witness ==
    /\ last.op = "update_session"
    /\ last.code = 200
    /\ Cardinality(dones) = 2
    /\ \E r \in dones : r.planned_session_id # NONE

\* C4: each athlete has at most one manual done-record per date.
C4_OneManualPerDate ==
    \A r1, r2 \in dones :
       (/\ r1.planned_session_id = NONE
        /\ r2.planned_session_id = NONE
        /\ r1.athlete_id = r2.athlete_id
        /\ r1.date = r2.date) => r1 = r2

\* C4 witness: an update was rejected because it would have made a second
\* manual record on a date.
C4_Witness ==
    /\ last.op = "update_session"
    /\ last.detail = "A session for this date already exists."
    /\ Cardinality(dones) = 2

\* C5: two concurrent log_completed_session requests of one athlete for the
\* same planned session, or without one for the same date, never both
\* insert: the athlete's records stay unique per planned session and, for
\* manual ones, per date.
C5_RacingLogsNeverBothInsert ==
    \A r1, r2 \in dones :
       (/\ r1.athlete_id = r2.athlete_id
        /\ r1.planned_session_id = r2.planned_session_id
        /\ (r1.planned_session_id = NONE => r1.date = r2.date)) => r1 = r2

\* ------------------------------------------------------------ claims: invites

Actions == {"ACCEPT", "DECLINE"}

Athletes == {u \in UserIds : users[u].role = "ATHLETE"}
Coaches == {u \in UserIds : users[u].role = "COACH"}

\* The coach's PENDING invites for the email.
PendingFor(c, e) ==
    {i \in DOMAIN invites : /\ invites[i].coach_id = c
                            /\ invites[i].athlete_email = e
                            /\ invites[i].status = "PENDING"}

\* C6 as stated: once an invite is ACCEPTED or DECLINED, every
\* respond_invite of an athlete and every remind_invite of a coach on it
\* fails with 'Invite already processed.' and changes nothing, and its
\* status stays.
C6_Original ==
    [][\A iid \in DOMAIN invites :
         invites[iid].status # "PENDING" =>
            /\ invites'[iid].status = invites[iid].status
            /\ \A u \in Athletes, a \in Actions :
                  respond_invite(u, iid, a) =>
                     /\ last'.detail = "Invite already processed."
                     /\ invites' = invites /\ links' = links
            /\ \A c \in Coaches :
                  remind_invite(c, iid) =>
                     /\ last'.detail = "Invite already processed."
                     /\ invites' = invites /\ links' = links
      ]_vars

\* C6 amended: an ACCEPTED or DECLINED invite keeps its status and
\* responded_at in every step; every respond_invite and remind_invite on it
\* fails and leaves invites and links unchanged, with 'Invite already
\* processed.' for the invite's bound athlete (respond) and its owning coach
\* (remind), and with 'Invite not found.' for any other athlete or coach.
C6_TerminalInvitesStay ==
    [][\A iid \in DOMAIN invites :
         invites[iid].status # "PENDING" =>
            /\ invites'[iid].status = invites[iid].status
            /\ invites'[iid].responded_at = invites[iid].responded_at
            /\ \A u \in UserIds, a \in Actions :
                  respond_invite(u, iid, a) =>
                     /\ last'.code >= 400
                     /\ invites' = invites /\ links' = links
                     /\ (u \in Athletes /\ invites[iid].athlete_id = u)
                           => last'.detail = "Invite already processed."
                     /\ (u \in Athletes /\ invites[iid].athlete_id # u)
                           => last'.detail = "Invite not found."
            /\ \A c \in UserIds :
                  remind_invite(c, iid) =>
                     /\ last'.code >= 400
                     /\ invites' = invites /\ links' = links
                     /\ (c \in Coaches /\ invites[iid].coach_id = c)
                           => last'.detail = "Invite already processed."
                     /\ (c \in Coaches /\ invites[iid].coach_id # c)
                           => last'.detail = "Invite not found."
      ]_vars

\* C6 witness: a respond on an invite that was already answered was refused.
C6_Witness ==
    /\ last.op = "respond_invite"
    /\ last.detail = "Invite already processed."
    /\ \E i \in DOMAIN invites : invites[i].status # "PENDING"

\* At most one PENDING invite per (coach, athlete_email).
OnePendingPerPair ==
    \A i, j \in DOMAIN invites :
       (/\ invites[i].status = "PENDING" /\ invites[j].status = "PENDING"
        /\ invites[i].coach_id = invites[j].coach_id
        /\ invites[i].athlete_email = invites[j].athlete_email) => i = j

\* C7 as stated: while the coach has a PENDING invite for the email, a
\* repeated invite_athlete returns that invite and adds no row; and there is
\* at most one PENDING invite per (coach, athlete_email).
C7_Original ==
    /\ []OnePendingPerPair
    /\ [][\A c \in Coaches, e \in Emails :
            (PendingFor(c, e) # {} /\ invite_athlete(c, e)) =>
               /\ last'.code = 200
               /\ last'.ret \subseteq PendingFor(c, e)
               /\ Len(invites') = Len(invites)
         ]_vars

\* C7 amended: while the coach has a PENDING invite for the email, a repeated
\* invite_athlete adds no row; it returns that invite, unless the email now
\* belongs to a registered coach or its athlete is already linked to the
\* coach, when it fails and changes nothing; and there is at most one PENDING
\* invite per (coach, athlete_email).
C7_RepeatedInviteAddsNoRow ==
    /\ []OnePendingPerPair
    /\ [][\A c \in Coaches, e \in Emails :
            (PendingFor(c, e) # {} /\ invite_athlete(c, e)) =>
               /\ Len(invites') = Len(invites)
               /\ \/ /\ last'.code = 200
                     /\ last'.ret \subseteq PendingFor(c, e)
                     /\ last'.ret # {}
                  \/ /\ last'.code = 400
                     /\ last'.detail \in {"Email belongs to a coach.",
                                          "Athlete already linked."}
                     /\ invites' = invites
         ]_vars

\* C7 witness: a repeated invite returned the pending invite without mail
\* or new row.
C7_Witness ==
    /\ last.op = "invite_athlete"
    /\ last.code = 200
    /\ last.mail = "none"
    /\ \E i \in last.ret : invites[i].status = "PENDING"

\* C8: two concurrent invite_athlete requests of a coach for one email never
\* leave two PENDING invites for the pair.
C8_RacingInvitesNeverBothInsert ==
    \A i, j \in DOMAIN invites :
       (/\ invites[i].coach_id = invites[j].coach_id
        /\ invites[i].athlete_email = invites[j].athlete_email
        /\ invites[i].status = "PENDING"
        /\ invites[j].status = "PENDING") => i = j

\* C9: respond_invite on a PENDING invite by its bound athlete succeeds; the
\* invite gets responded_at and, on ACCEPT, status ACCEPTED and the links
\* are the former ones plus (coach, athlete), once; on DECLINE, status
\* DECLINED and the links are unchanged.  No other invite changes.
C9_RespondEffect ==
    [][\A u \in Athletes, iid \in DOMAIN invites, a \in Actions :
         (/\ invites[iid].athlete_id = u
          /\ invites[iid].status = "PENDING"
          /\ respond_invite(u, iid, a)) =>
            /\ last'.code = 200
            /\ invites'[iid].responded_at # NONE
            /\ \A j \in DOMAIN invites : j # iid => invites'[j] = invites[j]
            /\ IF a = "ACCEPT"
               THEN /\ invites'[iid].status = "ACCEPTED"
                    /\ links' = links \cup {<<invites[iid].coach_id, u>>}
               ELSE /\ invites'[iid].status = "DECLINED"
                    /\ links' = links
      ]_vars

\* C9 witness: an invite was accepted by an athlete for whom its coach, the
\* only coach, had created a plan (and so the link) before.
C9_Witness ==
    /\ last.op = "respond_invite"
    /\ last.mail = "accepted"
    /\ \E i \in last.ret :
          /\ invites[i].status = "ACCEPTED"
          /\ Coaches = {invites[i].coach_id}
          /\ \E p \in DOMAIN plans : plans[p].athlete_id = invites[i].athlete_id

\* C10: respond_invite by a user who is not the invite's bound athlete (any
\* user when the invite is unbound, any coach) fails and leaves invites and
\* links unchanged.
C10_OnlyBoundAthleteResponds ==
    [][\A u \in UserIds, iid \in DOMAIN invites, a \in Actions :
         (invites[iid].athlete_id # u /\ respond_invite(u, iid, a)) =>
            /\ last'.code >= 400
            /\ invites' = invites
            /\ links' = links
      ]_vars

\* C10 witness: an athlete's respond was refused as not found although every
\* invite id exists, one of them PENDING and bound to nobody.
C10_Witness ==
    /\ last.op = "respond_invite"
    /\ last.code = 404
    /\ Len(invites) = MaxInvites
    /\ \E i \in DOMAIN invites :
          invites[i].status = "PENDING" /\ invites[i].athlete_id = NONE

\* ------------------------------------------------------------ claims: binding

\* The PENDING invites for the email that are bound to nobody.
UnboundPendingFor(invs, e) ==
    {i \in DOMAIN invs : /\ invs[i].status = "PENDING"
                         /\ invs[i].athlete_id = NONE
                         /\ invs[i].athlete_email = e}

\* C11: when an athlete registers with an email, every PENDING unbound
\* invite for that email becomes bound to the new athlete, stays PENDING and
\* passes the checks of respond_invite for that athlete; after register_user
\* and after list_athlete_invites of an athlete no PENDING unbound invite with
\* the athlete's email remains, and list_athlete_invites returns exactly the
\* invites bound to the athlete.
C11_DeferredBinding ==
    [][/\ \A e \in Emails :
            (UserByEmail(e) = NONE /\ register_user(e, "ATHLETE")) =>
               LET uid == Len(users) + 1 IN
               /\ \A i \in UnboundPendingFor(invites, e) :
                     /\ invites'[i].athlete_id = uid
                     /\ InviteIsCallers(invites', i, uid)
                     /\ InviteOpen(invites'[i])
               /\ UnboundPendingFor(invites', e) = {}
       /\ \A u \in Athletes :
            list_athlete_invites(u) =>
               /\ UnboundPendingFor(invites', users[u].email) = {}
               /\ last'.code = 200
               /\ last'.ret = {i \in DOMAIN invites' : invites'[i].athlete_id = u}
      ]_vars

\* C11 witness: the athlete that registered last has a PENDING invite bound
\* to it, which can only have been created before the registration.
C11_Witness ==
    /\ last.op = "register_user"
    /\ last.code = 201
    /\ \E i \in DOMAIN invites :
          /\ invites[i].athlete_id \in last.ret
          /\ invites[i].status = "PENDING"

\* C12: invite_athlete of a coach for an email of a registered coach fails
\* with 400 'Email belongs to a coach.'; for the email of a registered
\* athlete linked to the caller it fails with 400 'Athlete already linked.';
\* in both cases the invites are unchanged, whether or not a PENDING invite
\* for the pair exists.
C12_InviteRejectsCoachAndLinked ==
    [][\A c \in Coaches, e \in Emails :
         invite_athlete(c, e) =>
            LET target == UserByEmail(e) IN
            /\ (target # NONE /\ users[target].role = "COACH") =>
                  /\ last'.code = 400
                  /\ last'.detail = "Email belongs to a coach."
                  /\ invites' = invites
            /\ (target # NONE /\ users[target].role = "ATHLETE" /\ <<c, target>> \in links) =>
                  /\ last'.code = 400
                  /\ last'.detail = "Athlete already linked."
                  /\ invites' = invites
      ]_vars

\* C12 witness: an invite was refused as already linked while the only link
\* is the one between the coach and the athlete of a PENDING invite.
C12_Witness ==
    /\ last.op = "invite_athlete"
    /\ last.detail = "Athlete already linked."
    /\ \E i \in DOMAIN invites :
          /\ invites[i].status = "PENDING"
          /\ links = {<<invites[i].coach_id, invites[i].athlete_id>>}

\* ------------------------------------------------------------ claims: access

\* The caller is the athlete, or a coach linked to the athlete.
MayAccess(u, aid) ==
    \/ users[u].role = "ATHLETE" /\ u = aid
    \/ users[u].role = "COACH" /\ <<u, aid>> \in links

\* The request was refused with access-denied and wrote nothing.
Denied ==
    /\ last'.code = 403
    /\ UNCHANGED <<users, links, invites, plans, planned, dones, nextDoneId>>

\* C13: every request for the records of an athlete (summary, history,
\* today, weekly-stats, plan read/list/duplicate, done-session
\* list/get/update/delete) is either refused with 403 leaving the store
\* unchanged, or its caller is that athlete or a coach linked to the athlete
\* at that time (for duplicate_plan: linked to the plan's athlete and to the
\* target athlete).
C13_AccessOnlySelfOrLinkedCoach ==
    [][\/ Denied
       \/ /\ last'.op = "athlete_summary" =>
                \A u \in UserIds, aid \in UserIdInputs :
                   athlete_summary(u, aid) => MayAccess(u, aid)
          /\ last'.op = "athlete_history" =>
                \A u \in UserIds, aid \in UserIdInputs, today \in Dates :
                   athlete_history(u, aid, today) => MayAccess(u, aid)
          /\ last'.op = "athlete_today_overview" =>
                \A u \in UserIds, aid \in UserIdInputs, today \in Dates :
                   athlete_today_overview(u, aid, today) => MayAccess(u, aid)
          /\ last'.op = "athlete_weekly_stats" =>
                \A u \in UserIds, aid \in UserIdInputs, today \in Dates :
                   athlete_weekly_stats(u, aid, today) => MayAccess(u, aid)
          /\ last'.op = "read_plan" =>
                \A u \in UserIds, p \in DOMAIN plans :
                   read_plan(u, p) => MayAccess(u, plans[p].athlete_id)
          /\ last'.op = "list_athlete_plans" =>
                \A u \in UserIds, aid \in UserIdInputs :
                   list_athlete_plans(u, aid) => MayAccess(u, aid)
          /\ last'.op = "duplicate_plan" =>
                \A u \in UserIds, p \in DOMAIN plans, payload \in DuplicatePayloads :
                   duplicate_plan(u, p, payload) =>
                      /\ MayAccess(u, plans[p].athlete_id)
                      /\ MayAccess(u, IF Truthy(payload.target_athlete_id)
                                      THEN payload.target_athlete_id
                                      ELSE plans[p].athlete_id)
          /\ last'.op = "list_athlete_sessions" =>
                \A u \in UserIds, aid \in UserIdInputs :
                   list_athlete_sessions(u, aid, NONE, NONE, NONE) => MayAccess(u, aid)
          /\ last'.op = "get_completed_session" =>
                \A u \in UserIds, r \in dones :
                   get_completed_session(u, r.id) => MayAccess(u, r.athlete_id)
          /\ last'.op = "update_session" =>
                \A u \in UserIds, r \in dones, upd \in UpdatePayloads({NONE}, {MaxDate}) :
                   update_session(u, r.id, upd) => MayAccess(u, r.athlete_id)
          /\ last'.op = "delete_session" =>
                \A u \in UserIds, r \in dones :
                   delete_session(u, r.id) => MayAccess(u, r.athlete_id)
      ]_vars

\* C13 witness: a coach who is linked to some athlete was refused the update
\* of a done-record of an athlete the coach is not linked to.
C13_Witness ==
    /\ last.op = "update_session"
    /\ last.code = 403
    /\ last.detail = "Access denied."
    /\ links # {}
    /\ dones # {}

\* The plans of the statistics requests: no session, or a RODAJE on the
\* first date and a PASADAS on each later one.
StatsPlans(aid) ==
    {PlanCreate(aid, <<>>),
     [athlete_id |-> aid, start_date |-> 1, end_date |-> MaxDate,
      sessions |-> [k \in 1..MaxDate |->
                      [date |-> k, type |-> IF k = 1 THEN "RODAJE" ELSE "PASADAS"]]]}

\* The days the weekly statistics are asked on: the first date of the
\* records, the last days of the first and of the fourth week that hold the
\* last date, and the day after the first week.
WeeklyTodays == {1, MaxDate + 6, MaxDate + 7, MaxDate + 7 * StatWeeks - 1}

\* Requests of a coach and its athletes against the athletes' statistics.
NextStats ==
    \/ \E reg \in Registrations(SessionRoles) : register_user(reg[1], reg[2])
    \/ \E c \in UserIds : \E a \in UserIds \ {c} :
          \E payload \in StatsPlans(a) : create_plan(c, payload)
    \/ \E u \in UserIds, pid \in {NONE} \cup DOMAIN planned, d \in Dates :
          log_completed_session(u, pid, d)
    \/ \E u \in UserIds, aid \in UserIds, today \in Todays(MonthSpan) :
          athlete_history(u, aid, today)
    \/ \E u \in UserIds, aid \in UserIds, today \in WeeklyTodays :
          athlete_weekly_stats(u, aid, today)

SpecStats == Init /\ [][NextStats]_vars

\* The plans of the plan requests: no session, one on the last date, or one
\* on each date.
PlansRequests(aid) ==
    {PlanCreate(aid, <<>>), PlanCreate(aid, <<MaxDate>>),
     PlanCreate(aid, [k \in 1..MaxDate |-> k])}

\* Requests of coaches and athletes against the plans router.
NextPlans ==
    \/ \E reg \in Registrations(SessionRoles) : register_user(reg[1], reg[2])
    \/ \E c \in UserIds, a \in UserIdInputs :
          \E payload \in PlansRequests(a) : create_plan(c, payload)
    \/ \E c \in UserIds, pid \in 1..MaxPlans, payload \in DuplicatePayloads :
          duplicate_plan(c, pid, payload)
    \/ \E u \in UserIds, pid \in 1..MaxPlans : read_plan(u, pid)
    \/ \E u \in UserIds, aid \in UserIds : list_athlete_plans(u, aid)

SpecPlans == Init /\ [][NextPlans]_vars

\* ------------------------------------------------------------ claims: dashboard

\* The planned sessions of the athlete's plans dated in [start, end].
PlannedOfIn(a, start, end) ==
    {s \in DOMAIN planned : /\ plans[planned[s].plan_id].athlete_id = a
                            /\ start <= planned[s].date
                            /\ planned[s].date <= end}

\* C14: in the roster metrics of a coach and in every point of the weekly
\* trend, compliance_rate is null if and only if no planned session of the
\* athlete (of the roster, for the trend) is dated in the window.
C14_ComplianceAbsentIffNothingPlanned ==
    [][/\ (last'.op = "coach_dashboard" /\ last'.code = 200) =>
            \A c \in Coaches, today \in Todays(6) :
               coach_dashboard(c, today) =>
                  \A m \in last'.ret :
                     (m.compliance_rate = NONE)
                        <=> (PlannedOfIn(m.athlete_id, today - 6, today) = {})
       /\ (last'.op = "coach_overview" /\ last'.code = 200) =>
            \A c \in Coaches, today \in {MaxDate, MaxDate + 27}, later \in {0, 1} :
               coach_overview(c, today, today + later) =>
                  \A k \in DOMAIN last'.ret.trend :
                     LET point == last'.ret.trend[k] IN
                     (point.compliance_rate = NONE)
                        <=> (\A a \in UserIds :
                               <<c, a>> \in links =>
                                  PlannedOfIn(a, point.week_start, point.week_end) = {})
      ]_vars

\* C14 witness: the roster holds an athlete with completed sessions in the
\* week, nothing planned and no compliance rate.
C14_Witness ==
    /\ last.op = "coach_dashboard"
    /\ last.code = 200
    /\ \E m \in last.ret :
          /\ m.compliance_rate = NONE
          /\ m.planned_sessions_week = 0
          /\ m.completed_sessions_week > 0

\* The done-records of the athlete dated in [start, end], linked or manual.
DonesOfIn(a, start, end) ==
    {r \in dones : r.athlete_id = a /\ start <= r.date /\ r.date <= end}

\* rate (in hundredths) is completed / planned rounded to 2 decimals.
IsRounded2(rate, completed_count, planned_count) ==
    /\ rate \in 0..(100 * completed_count)
    /\ 2 * (100 * completed_count - rate * planned_count) <= planned_count
    /\ 2 * (rate * planned_count - 100 * completed_count) <= planned_count

\* C15: the roster metrics of a coach hold exactly one entry per linked
\* athlete; planned_sessions_week counts the planned sessions of the
\* athlete's plans dated in [today-6, today], completed_sessions_week counts
\* the athlete's done-records (linked or manual) dated in the same window,
\* and compliance_rate is completed/planned rounded to 2 decimals, absent
\* when nothing is planned.
C15_RosterMetrics ==
    [][(last'.op = "coach_dashboard" /\ last'.code = 200) =>
         \A c \in Coaches, today \in Todays(6) :
            coach_dashboard(c, today) =>
               /\ {m.athlete_id : m \in last'.ret} = {a \in UserIds : <<c, a>> \in links}
               /\ \A m1, m2 \in last'.ret : m1.athlete_id = m2.athlete_id => m1 = m2
               /\ \A m \in last'.ret :
                     LET np == Cardinality(PlannedOfIn(m.athlete_id, today - 6, today))
                         nc == Cardinality(DonesOfIn(m.athlete_id, today - 6, today))
                     IN /\ m.planned_sessions_week = np
                        /\ m.completed_sessions_week = nc
                        /\ IF np = 0 THEN m.compliance_rate = NONE
                           ELSE IsRounded2(m.compliance_rate, nc, np)
      ]_vars

\* C15 witness: the roster shows athlete A with 2 planned and 1 logged at
\* 0.5, and athlete B with nothing planned and 1 manual session without a
\* rate.
C15_Witness ==
    /\ last.op = "coach_dashboard"
    /\ last.code = 200
    /\ \E mA, mB \in last.ret :
          /\ mA.planned_sessions_week = 2
          /\ mA.completed_sessions_week = 1
          /\ mA.compliance_rate = 50
          /\ mB.planned_sessions_week = 0
          /\ mB.completed_sessions_week = 1
          /\ mB.compliance_rate = NONE
          /\ \E r \in dones : r.athlete_id = mB.athlete_id /\ r.planned_session_id = NONE

\* C16: pending_sessions_today is never negative in any entry of the roster
\* metrics, and the pending_sessions_today of the coach overview is never
\* negative.
C16_PendingNeverNegative ==
    /\ (last.op = "coach_dashboard" /\ last.code = 200) =>
          \A m \in last.ret : m.pending_sessions_today >= 0
    /\ (last.op = "coach_overview" /\ last.code = 200) =>
          last.ret.pending_sessions_today >= 0

\* C16 witness: a roster entry with pending 0 for an athlete without any
\* planned session whose week holds two done-records. The records are
\* manual ones of two dates, so today is the later date: one record of
\* today, none planned.
C16_Witness ==
    /\ last.op = "coach_dashboard"
    /\ last.code = 200
    /\ \E m \in last.ret :
          /\ m.pending_sessions_today = 0
          /\ m.planned_sessions_week = 0
          /\ m.completed_sessions_week = 2
          /\ PlannedOfIn(m.athlete_id, 0, MaxDate) = {}

\* The planned sessions of the athlete dated today that no done-record
\* references.
UncompletedToday(a, today) ==
    {s \in PlannedOfIn(a, today, today) :
        \A r \in dones : r.planned_session_id # s}

\* C17 as stated: pending_sessions_today of every roster entry is the number
\* of the athlete's planned sessions dated today that no done-record
\* references.
C17_Original ==
    [][(last'.op = "coach_dashboard" /\ last'.code = 200) =>
         \A c \in Coaches, today \in Todays(6) :
            coach_dashboard(c, today) =>
               \A m \in last'.ret :
                  m.pending_sessions_today
                     = Cardinality(UncompletedToday(m.athlete_id, today))
      ]_vars

\* C17 amended: pending_sessions_today of every roster entry is the number
\* of the athlete's planned sessions dated today minus the number of the
\* athlete's done-records dated today (linked to any session, or manual),
\* and 0 when that difference is negative.
C17_PendingIsPlannedMinusDoneToday ==
    [][(last'.op = "coach_dashboard" /\ last'.code = 200) =>
         \A c \in Coaches, today \in Todays(6) :
            coach_dashboard(c, today) =>
               \A m \in last'.ret :
                  LET np == Cardinality(PlannedOfIn(m.athlete_id, today, today))
                      nd == Cardinality(DonesOfIn(m.athlete_id, today, today))
                  IN m.pending_sessions_today = IF np > nd THEN np - nd ELSE 0
      ]_vars

\* C17 witness: a roster entry with pending 0 for an athlete whose one plan
\* has both its sessions in the week (so today is the later date), whose
\* session of today is referenced by no done-record, and who logged a manual
\* session today.
C17_Witness ==
    /\ last.op = "coach_dashboard"
    /\ last.code = 200
    /\ \E m \in last.ret :
          /\ m.pending_sessions_today = 0
          /\ m.planned_sessions_week = 2
          /\ Cardinality(PlannedOfIn(m.athlete_id, 0, MaxDate)) = 2
          /\ UncompletedToday(m.athlete_id, MaxDate) # {}
          /\ \E r \in dones : /\ r.athlete_id = m.athlete_id
                                /\ r.date = MaxDate
                                /\ r.planned_session_id = NONE

\* ------------------------------------------------------------ claims: statistics

\* C18: athlete_weekly_stats returns exactly 4 entries in strictly
\* increasing order of start_date; every entry covers the 7 days
\* start_date..end_date, each window starts the day after the previous one
\* ends, the last window ends today, and sessions is the number of the
\* athlete's done-records dated inside the window.
C18_WeeklyStatsWindows ==
    [][(last'.op = "athlete_weekly_stats" /\ last'.code = 200) =>
         \A u \in UserIds, aid \in UserIds, today \in WeeklyTodays :
            athlete_weekly_stats(u, aid, today) =>
               LET stats == last'.ret IN
               /\ Len(stats) = 4
               /\ \A k \in 1..3 :
                     /\ stats[k].start_date < stats[k + 1].start_date
                     /\ stats[k + 1].start_date = stats[k].end_date + 1
               /\ stats[4].end_date = today
               /\ \A k \in 1..4 :
                     /\ stats[k].end_date = stats[k].start_date + 6
                     /\ stats[k].sessions
                           = Cardinality(DonesOfIn(aid, stats[k].start_date, stats[k].end_date))
      ]_vars

\* C18 witness: the statistics of an athlete with one record in the last
\* window and one in the window before it.
C18_Witness ==
    /\ last.op = "athlete_weekly_stats"
    /\ last.code = 200
    /\ last.ret[3].sessions = 1
    /\ last.ret[4].sessions = 1

\* The bucket of a done-record: the type of its planned session, MANUAL
\* without one.
BucketOf(r) ==
    IF r.planned_session_id = NONE THEN "MANUAL"
    ELSE planned[r.planned_session_id].type

\* C19: in athlete_history every done-record of the athlete dated in
\* [today-29, today] is counted in exactly the bucket of its planned
\* session's type, or of MANUAL without a planned session; records outside
\* the window are counted nowhere; the bucket counts add up to
\* month_sessions.
C19_DistributionPartitionsMonth ==
    [][(last'.op = "athlete_history" /\ last'.code = 200) =>
         \A u \in UserIds, aid \in UserIds, today \in Todays(MonthSpan) :
            athlete_history(u, aid, today) =>
               LET dist == last'.ret.session_type_distribution
                   month == DonesOfIn(aid, today - 29, today)
               IN /\ \A r \in month : BucketOf(r) \in DOMAIN dist
                  /\ \A l \in DOMAIN dist :
                        dist[l] = Cardinality({r \in month : BucketOf(r) = l})
                  /\ Sum(dist, DOMAIN dist) = last'.ret.month_sessions
                  /\ last'.ret.month_sessions = Cardinality(month)
      ]_vars

\* C19 witness: the history of an athlete with a manual record and a record
\* of a planned session, one of them older than the 30 days.
C19_Witness ==
    /\ last.op = "athlete_history"
    /\ last.code = 200
    /\ last.ret.month_sessions = 1
    /\ \E r1, r2 \in dones :
          /\ r1.athlete_id = last.ret.athlete_id
          /\ r2.athlete_id = last.ret.athlete_id
          /\ r1.planned_session_id = NONE
          /\ r2.planned_session_id # NONE
          /\ r1.date < r2.date
          /\ DOMAIN last.ret.session_type_distribution
                = {planned[r2.planned_session_id].type}

\* ------------------------------------------------------------ claims: plans

\* The ids of the planned sessions of a plan in a planned-sessions table.
SessionIdsOf(tbl, plan_id) == {s \in DOMAIN tbl : tbl[s].plan_id = plan_id}

\* C20: a successful duplicate_plan with N = requested start_date minus the
\* start_date of the original creates one plan with as many sessions as the
\* original, every session being an original one (same type) dated N days
\* later, and with end_date the requested one, or the original end_date
\* plus N days when none is requested; the plans and planned sessions that
\* existed before are unchanged.
C20_DuplicateShiftsByStartDifference ==
    [][(last'.op = "duplicate_plan" /\ last'.code = 201) =>
         \A c \in Coaches, pid \in DOMAIN plans, payload \in DuplicatePayloads :
            duplicate_plan(c, pid, payload) =>
               LET N == payload.start_date - plans[pid].start_date
                   new == Len(plans) + 1
                   orig == SessionIdsOf(planned, pid)
                   copy == SessionIdsOf(planned', new)
               IN /\ DOMAIN plans' = DOMAIN plans \cup {new}
                  /\ plans'[new].start_date = payload.start_date
                  /\ plans'[new].end_date =
                        IF payload.end_date # NONE THEN payload.end_date
                        ELSE plans[pid].end_date + N
                  /\ Cardinality(copy) = Cardinality(orig)
                  /\ \E f \in [orig -> copy] :
                        /\ \A s, t \in orig : f[s] = f[t] => s = t
                        /\ \A s \in orig :
                              /\ planned'[f[s]].date = planned[s].date + N
                              /\ planned'[f[s]].type = planned[s].type
                  /\ \A i \in DOMAIN plans : plans'[i] = plans[i]
                  /\ \A s \in DOMAIN planned : planned'[s] = planned[s]
                  /\ DOMAIN planned' = DOMAIN planned \cup copy
      ]_vars

\* C20 witness: a plan with two sessions was duplicated to start one day
\* earlier, without a requested end_date.
C20_Witness ==
    /\ last.op = "duplicate_plan"
    /\ last.code = 201
    /\ Len(plans) = 2
    /\ plans[2].start_date = plans[1].start_date - 1
    /\ plans[2].end_date = plans[1].end_date - 1
    /\ Cardinality(SessionIdsOf(planned, 1)) = 2
    /\ Cardinality(SessionIdsOf(planned, 2)) = 2

\* ------------------------------------------------------------ notifications

\* The tasks the requests hand to BackgroundTasks: send_invite_email,
\* send_invite_reminder and send_invite_accepted.
Tasks == {"invite", "reminder", "accepted"}

\* Mutant of SendEmail: an SMTP failure is not caught.
SendEmail_Raises(configured, smtp_ok) ==
    IF ~configured THEN "skipped"
    ELSE IF smtp_ok THEN "sent"
    ELSE "raised"

\* _send_email: skipped with a warning when smtp_host or email_sender is not
\* set; else sent, or failed with the exception caught and logged.
SendEmail(configured, smtp_ok) ==
    IF ~configured THEN "skipped"
    ELSE IF smtp_ok THEN "sent"
    ELSE "failed"

\* The background task of the last response runs, after the response was
\* sent: it builds the message from the invite and calls _send_email.  The
\* task's end is recorded in place of the task.
run_background_task(configured, smtp_ok) ==
    /\ last.mail \in Tasks
    /\ last' = [last EXCEPT !.mail = SendEmail(configured, smtp_ok)]
    /\ UNCHANGED <<users, links, invites, plans, planned, dones, nextDoneId, now, reqs>>

\* Requests against the invite lifecycle with the background tasks they
\* schedule.
NextNotify ==
    \/ \E reg \in Registrations(SessionRoles) : register_user(reg[1], reg[2])
    \/ \E c \in UserIds, e \in Emails : invite_athlete(c, e)
    \/ \E u \in UserIds : list_athlete_invites(u)
    \/ \E c \in UserIds, iid \in 1..MaxInvites : remind_invite(c, iid)
    \/ \E u \in UserIds, iid \in 1..MaxInvites, action \in {"ACCEPT", "DECLINE"} :
          respond_invite(u, iid, action)
    \/ \E configured \in BOOLEAN, smtp_ok \in BOOLEAN :
          run_background_task(configured, smtp_ok)

SpecNotify == Init /\ [][NextNotify]_vars

\* ------------------------------------------------------------ claims: notifications

\* C21: a task is scheduled only by a request that answered 200 and whose
\* invite or link change is committed (an invite email for a PENDING invite
\* that is stored, an accepted notification for an ACCEPTED invite whose
\* link is stored); and the task, whether the send succeeds, fails or is
\* skipped, ends without an error and leaves the invites, the links and the
\* response as they were.
C21_NotificationNeverChangesOutcome ==
    [][/\ last'.mail \in Tasks =>
            /\ last'.code = 200
            /\ \A iid \in last'.ret :
                  /\ iid \in DOMAIN invites'
                  /\ last'.mail \in {"invite", "reminder"} =>
                        invites'[iid].status = "PENDING"
                  /\ last'.mail = "accepted" =>
                        /\ invites'[iid].status = "ACCEPTED"
                        /\ <<invites'[iid].coach_id, invites'[iid].athlete_id>> \in links'
       /\ \A configured \in BOOLEAN, smtp_ok \in BOOLEAN :
            run_background_task(configured, smtp_ok) =>
               /\ invites' = invites
               /\ links' = links
               /\ users' = users
               /\ [last' EXCEPT !.mail = last.mail] = last
               /\ last'.mail \in {"sent", "failed", "skipped"}
      ]_vars

\* C21 witness: the accepted notification of a successful ACCEPT failed to
\* be sent; the invite is ACCEPTED, the link is stored and the response is
\* the 200 of respond_invite.
C21_Witness ==
    /\ last.op = "respond_invite"
    /\ last.code = 200
    /\ last.mail = "failed"
    /\ \A iid \in last.ret :
          /\ invites[iid].status = "ACCEPTED"
          /\ <<invites[iid].coach_id, invites[iid].athlete_id>> \in links

\* ------------------------------------------------------------ concurrent link inserts

\* create_plan up to its lookup of the CoachAthlete row, read from the
\* committed rows.  The request goes on to its commit knowing whether it
\* has a link to add.
plan_lookup(c, payload) ==
    IF ~HasRole(c, "COACH")
    THEN Fail("create_plan", 403, "Insufficient role.")
    ELSE IF payload.athlete_id \notin UserIds
    THEN Fail("create_plan", 500, "Internal Server Error")
    ELSE /\ Cardinality(reqs) < MaxInflight
         /\ reqs' = reqs \cup {[rid |-> FreeRid, op |-> "plan", u |-> c,
                                 payload |-> payload, iid |-> NONE,
                                 add |-> ~LinkExists(links, c, payload.athlete_id)]}
         /\ UNCHANGED <<users, links, invites, plans, planned, dones, nextDoneId,
                        now, last>>

\* create_plan's db.commit(): the plan, its sessions and, if the lookup
\* found none, the link are inserted.  coach_athlete_unique rejects a second
\* row for the pair; the IntegrityError is not caught and the transaction
\* is rolled back.
plan_commit(q) ==
    LET aid == q.payload.athlete_id IN
    /\ q.op = "plan"
    /\ reqs' = reqs \ {q}
    /\ IF q.add /\ LinkExists(links, q.u, aid)
       THEN /\ last' = Resp("create_plan", 500, "Internal Server Error", "none", {})
            /\ UNCHANGED <<plans, planned, links>>
       ELSE /\ Len(plans) < MaxPlans
            /\ plans' = Append(plans, [athlete_id |-> aid,
                                       start_date |-> q.payload.start_date,
                                       end_date |-> q.payload.end_date])
            /\ planned' = planned \o PlannedRows(Len(plans) + 1, q.payload.sessions)
            /\ links' = IF q.add THEN links \cup {<<q.u, aid>>} ELSE links
            /\ last' = Resp("create_plan", 201, "", "none", {Len(plans) + 1})
    /\ UNCHANGED <<users, invites, dones, nextDoneId, now>>

\* respond_invite up to its lookup of the CoachAthlete row (on ACCEPT).
respond_lookup(u, iid, action) ==
    IF ~HasRole(u, "ATHLETE")
    THEN Fail("respond_invite", 403, "Insufficient role.")
    ELSE IF ~InviteIsCallers(invites, iid, u)
    THEN Fail("respond_invite", 404, "Invite not found.")
    ELSE IF ~InviteOpen(invites[iid])
    THEN Fail("respond_invite", 400, "Invite already processed.")
    ELSE /\ Cardinality(reqs) < MaxInflight
         /\ reqs' = reqs \cup {[rid |-> FreeRid, op |-> action, u |-> u,
                                 payload |-> NONE, iid |-> iid,
                                 add |-> /\ action = "ACCEPT"
                                         /\ AcceptAddsLink(links, invites[iid].coach_id, u)]}
         /\ UNCHANGED <<users, links, invites, plans, planned, dones, nextDoneId,
                        now, last>>

\* respond_invite's db.commit(): the invite's status and responded_at are
\* updated and, if the lookup found none, the link is inserted.
respond_commit(q) ==
    LET c == invites[q.iid].coach_id IN
    /\ q.op \in {"ACCEPT", "DECLINE"}
    /\ reqs' = reqs \ {q}
    /\ IF q.add /\ LinkExists(links, c, q.u)
       THEN /\ last' = Resp("respond_invite", 500, "Internal Server Error", "none", {})
            /\ UNCHANGED <<invites, links, now>>
       ELSE /\ invites' = [invites EXCEPT ![q.iid] = Responded(invites[q.iid], q.op, now)]
            /\ links' = IF q.add THEN links \cup {<<c, q.u>>} ELSE links
            /\ now' = now + 1
            /\ last' = Resp("respond_invite", 200, "", RespondMail(q.op), {q.iid})
    /\ UNCHANGED <<users, plans, planned, dones, nextDoneId>>

\* Concurrent create_plan and respond_invite requests of registered users.
NextLinkRace ==
    \/ \E reg \in Registrations(LogRaceRoles) : register_user(reg[1], reg[2])
    \/ \E c \in UserIds, e \in Emails : invite_athlete(c, e)
    \/ \E c \in UserIds : \E a \in UserIds \ {c} : plan_lookup(c, PlanCreate(a, <<>>))
    \/ \E q \in reqs : plan_commit(q)
    \/ \E u \in UserIds, iid \in 1..MaxInvites, action \in {"ACCEPT", "DECLINE"} :
          respond_lookup(u, iid, action)
    \/ \E q \in reqs : respond_commit(q)

SpecLinkRace == Init /\ [][NextLinkRace]_vars

\* C22: a create_plan or respond_invite whose link insert races another
\* insert of the same (coach, athlete) pair is never answered with an
\* unhandled failure (500).
C22_RacingLinkInsertAnsweredAsConflict ==
    last.op \in {"create_plan", "respond_invite"} => last.code # 500

\* ------------------------------------------------------------ claims: updates

\* C23: update_session on a record the caller may edit, with a field set,
\* validates the record's new (planned_session_id, date), fields absent
\* from the request taken from the stored record: it answers 400 exactly
\* when another record of the athlete references the new planned session
\* or, the new planned_session_id being null, is manual on the new date;
\* 404 when the new planned session does not exist and 403 when it belongs
\* to another athlete's plan; and every rejection leaves the records
\* unchanged.
C23_UpdateValidatesProspectiveState ==
    [][last'.op = "update_session" =>
         \A u \in UserIds, sid \in DoneIdInputs,
            upd \in UpdatePayloads(PlannedIdInputs, DateInputs) :
            (/\ SessionForEdit(u, sid)[1] = 0
             /\ ~NoUpdates(upd)
             /\ update_session(u, sid, upd)) =>
               LET session == DoneById(dones, sid)
                   np == IF upd.pid = ABSENT THEN session.planned_session_id ELSE upd.pid
                   nd == IF upd.date = ABSENT THEN session.date ELSE upd.date
                   others == {r \in dones : r.athlete_id = session.athlete_id /\ r.id # sid}
                   conflict == IF np # NONE
                               THEN \E r \in others : r.planned_session_id = np
                               ELSE \E r \in others : /\ r.planned_session_id = NONE
                                                       /\ r.date = nd
               IN /\ (last'.code = 400) <=> conflict
                  /\ (np # NONE /\ np \notin DOMAIN planned) => last'.code = 404
                  /\ (np \in DOMAIN planned /\ PlannedOwner(np) # session.athlete_id)
                        => last'.code = 403
                  /\ last'.code # 200 => dones' = dones
      ]_vars

\* ------------------------------------------------------------ claims: links

\* Requests against every endpoint that writes: the invite lifecycle, the
\* plans and the done-records.
NextLinks ==
    \/ \E reg \in Registrations(LogRaceRoles) : register_user(reg[1], reg[2])
    \/ \E c \in UserIds, e \in Emails : invite_athlete(c, e)
    \/ \E u \in UserIds : list_athlete_invites(u)
    \/ \E c \in UserIds, iid \in 1..MaxInvites : remind_invite(c, iid)
    \/ \E u \in UserIds, iid \in 1..MaxInvites, action \in {"ACCEPT", "DECLINE"} :
          respond_invite(u, iid, action)
    \/ \E c \in UserIds, a \in UserIds : create_plan(c, PlanCreate(a, <<>>))
    \/ \E c \in UserIds, pid \in 1..MaxPlans,
          payload \in {d \in DuplicatePayloads : d.start_date = 1 /\ d.end_date = NONE} :
          duplicate_plan(c, pid, payload)
    \/ \E u \in UserIds : log_completed_session(u, NONE, 1)
    \/ \E u \in UserIds, upd \in UpdatePayloads({}, {MaxDate}) : update_session(u, 1, upd)
    \/ \E u \in UserIds : delete_session(u, 1)

SpecLinks == Init /\ [][NextLinks]_vars

\* C24: every coach-athlete link relates a user of role COACH to an
\* existing user of role ATHLETE.
C24_LinksRelateCoachToAthlete ==
    \A l \in links :
       /\ l[1] \in UserIds
       /\ l[2] \in UserIds
       /\ users[l[1]].role = "COACH"
       /\ users[l[2]].role = "ATHLETE"

\* C25: every link (coach, athlete) that comes to exist is the effect of a
\* respond_invite ACCEPT of that athlete on an invite of that coach bound to
\* the athlete, or of a create_plan or duplicate_plan of that coach for that
\* athlete; no request removes a link, and a caller who may access an
\* athlete's records may do so ever after.
C25_LinksOnlyAddedByAcceptOrPlan ==
    [][/\ links \subseteq links'
       /\ Cardinality(links') >= Cardinality(links)
       /\ \A l \in links' \ links :
             \/ \E iid \in DOMAIN invites :
                   /\ invites[iid].coach_id = l[1]
                   /\ invites[iid].athlete_id = l[2]
                   /\ respond_invite(l[2], iid, "ACCEPT")
             \/ create_plan(l[1], PlanCreate(l[2], <<>>))
             \/ \E pid \in DOMAIN plans, payload \in DuplicatePayloads :
                   /\ duplicate_plan(l[1], pid, payload)
                   /\ l[2] = IF Truthy(payload.target_athlete_id)
                             THEN payload.target_athlete_id
                             ELSE plans[pid].athlete_id
       /\ \A c \in UserIds, a \in UserIds :
             EnsureAthleteAccess(links, c, a)[1] = 0 =>
                EnsureAthleteAccess(links', c, a)[1] = 0
      ]_vars

\* C25 witness: an athlete who accepted a coach's invite deleted a
\* done-record, and the link of the two is in place.
C25_Witness ==
    /\ last.op = "delete_session"
    /\ last.code = 204
    /\ \E i \in DOMAIN invites :
          /\ invites[i].status = "ACCEPTED"
          /\ <<invites[i].coach_id, invites[i].athlete_id>> \in links

\* ------------------------------------------------------------ claims: scheduling

\* The invites a step inserts, and those it binds to an athlete.
CreatedInvites == DOMAIN invites' \ DOMAIN invites
BoundInvites ==
    {i \in DOMAIN invites : invites[i].athlete_id = NONE /\ invites'[i].athlete_id # NONE}

\* The accepted notification is scheduled by exactly the requests that turn
\* a PENDING invite ACCEPTED.
AcceptedMailOnlyOnAccept ==
    (last'.mail = "accepted") <=>
       \E i \in DOMAIN invites :
          invites[i].status = "PENDING" /\ invites'[i].status = "ACCEPTED"

\* C26 as stated: an invite email is scheduled by exactly the requests that
\* insert an invite or bind one to an athlete, and the accepted
\* notification by exactly the successful ACCEPTs.
C26_Original ==
    [][/\ (last'.mail = "invite") <=> (CreatedInvites # {} \/ BoundInvites # {})
       /\ AcceptedMailOnlyOnAccept
      ]_vars

\* C26 amended: an invite email is scheduled by exactly the invite_athlete
\* requests that insert an invite or bind the existing PENDING one, once;
\* the register_user and list_athlete_invites requests that bind invites
\* schedule nothing; the accepted notification is scheduled by exactly the
\* successful ACCEPTs.
C26_InviteMailOnlyFromInviteAthlete ==
    [][/\ (last'.mail = "invite") <=>
            /\ last'.op = "invite_athlete"
            /\ last'.code = 200
            /\ Cardinality(CreatedInvites \cup BoundInvites) = 1
            /\ last'.ret = CreatedInvites \cup BoundInvites
       /\ last'.op \in {"register_user", "list_athlete_invites"} => last'.mail = "none"
       /\ last'.op # "invite_athlete" => CreatedInvites = {}
       /\ AcceptedMailOnlyOnAccept
      ]_vars

\* C26 witness: a registration bound a PENDING invite to the new athlete
\* and scheduled no email.
C26_Witness ==
    /\ last.op = "register_user"
    /\ last.code = 201
    /\ last.mail = "none"
    /\ \E i \in DOMAIN invites :
          /\ invites[i].athlete_id = Len(users)
          /\ invites[i].status = "PENDING"

\* ------------------------------------------------------------ claims: today

\* C27: in the body of athlete_today_overview, today is an entry dated today
\* if the athlete has a planned session today and null otherwise; upcoming
\* holds at most 3 planned sessions of the athlete in ascending date order,
\* none of them the entry returned as today and none dated today; and an
\* entry is marked completed exactly when a done-record of the athlete
\* references its planned session.
C27_TodayAndUpcoming ==
    (last.op = "athlete_today_overview" /\ last.code = 200) =>
       LET body == last.ret
           aid == body.athlete_id
           entries == {body.upcoming[k] : k \in DOMAIN body.upcoming}
                         \cup {body.today[k] : k \in DOMAIN body.today}
       IN /\ Len(body.today) <= 1
          /\ (body.today = <<>>) <=> (PlannedOfIn(aid, body.date, body.date) = {})
          /\ \A k \in DOMAIN body.today : body.today[k].date = body.date
          /\ Len(body.upcoming) <= 3
          /\ \A j, k \in DOMAIN body.upcoming :
                j < k => body.upcoming[j].date <= body.upcoming[k].date
          /\ \A k \in DOMAIN body.upcoming :
                /\ \A j \in DOMAIN body.today :
                      body.upcoming[k].session_id # body.today[j].session_id
                /\ body.upcoming[k].date # body.date
          /\ \A e \in entries :
                /\ e.session_id \in PlannedOf(aid)
                /\ e.date = planned[e.session_id].date
                /\ e.completed <=>
                      \E r \in dones : /\ r.athlete_id = aid
                                        /\ r.planned_session_id = e.session_id

\* ------------------------------------------------------------ claims: overview

\* C28: in the body of coach_overview, total_athletes is the number of
\* linked athletes; avg_compliance_rate is absent exactly when no linked
\* athlete has a compliance rate and else the mean of the rates that are
\* defined, rounded to 2 decimals; low_compliance_athletes counts the
\* athletes whose rate is defined and below 0.6; pending_sessions_today is
\* the sum of the athletes' pending counts; a coach without athletes gets
\* zeros, no average and empty trend and top lists.
C28_OverviewAggregates ==
    [][(last'.op = "coach_overview" /\ last'.code = 200) =>
         \A c \in Coaches, today \in {MaxDate, MaxDate + 27}, later \in {0, 1} :
            coach_overview(c, today, today + later) =>
               LET body == last'.ret
                   linked == {a \in UserIds : <<c, a>> \in links}
                   withRate == {a \in linked : PlannedOfIn(a, today - 6, today) # {}}
                   rate == [a \in withRate |-> AthleteMetrics(a, today).compliance_rate]
                   pending == [a \in linked |-> AthleteMetrics(a, today).pending_sessions_today]
                   total == Sum(rate, withRate)
                   n == Cardinality(withRate)
               IN /\ body.total_athletes = Cardinality(linked)
                  /\ (body.avg_compliance_rate = NONE) <=> (withRate = {})
                  /\ withRate # {} =>
                        /\ 2 * (body.avg_compliance_rate * n - total) <= n
                        /\ 2 * (total - body.avg_compliance_rate * n) <= n
                  /\ body.low_compliance_athletes
                        = Cardinality({a \in withRate : rate[a] < 60})
                  /\ body.pending_sessions_today = Sum(pending, linked)
                  /\ linked = {} =>
                        /\ body.total_athletes = 0
                        /\ body.pending_sessions_today = 0
                        /\ body.low_compliance_athletes = 0
                        /\ body.trend = <<>>
                        /\ body.top_athletes = {}
      ]_vars

\* C28 witness: the overview of a coach with two athletes, one at 0.5 and
\* one without a rate: the average is 0.5 and one athlete is low.
C28_Witness ==
    /\ last.op = "coach_overview"
    /\ last.code = 200
    /\ last.ret.total_athletes = 2
    /\ last.ret.avg_compliance_rate = 50
    /\ last.ret.low_compliance_athletes = 1
    /\ \E l \in links : PlannedOfIn(l[2], 0, MaxDate) = {}

\* ------------------------------------------------------------ claims: invite rows

\* C29: every ACCEPTED invite is bound to a user of role ATHLETE whose
\* email is the invite's athlete_email and who is linked to the invite's
\* coach; and an invite has responded_at exactly when it is ACCEPTED or
\* DECLINED.
C29_AcceptedInvitesBoundAndLinked ==
    \A i \in DOMAIN invites :
       /\ invites[i].status = "ACCEPTED" =>
             /\ invites[i].athlete_id \in UserIds
             /\ users[invites[i].athlete_id].role = "ATHLETE"
             /\ users[invites[i].athlete_id].email = invites[i].athlete_email
             /\ <<invites[i].coach_id, invites[i].athlete_id>> \in links
       /\ (invites[i].responded_at # NONE)
             <=> (invites[i].status \in {"ACCEPTED", "DECLINED"})

\* C29 witness: an athlete declined one invite and accepted another, and a
\* third request followed.
C29_Witness ==
    /\ last.op \notin {"respond_invite", "init"}
    /\ \E i, j \in DOMAIN invites :
          /\ invites[i].status = "ACCEPTED"
          /\ invites[j].status = "DECLINED"

\* ------------------------------------------------------------ claims: compliance bound

====
